---- MODULE Spec2Model ----
(***************************************************************************)
(* nodeprobe: the node registry (NodeService), the gossip merge            *)
(* (MergeNodeInfo), the polling scheduler (PollingService), the /report    *)
(* handler (WebServer.handleReport) and the poll-history retention pass    *)
(* (Repository.CleanupOldResults), as state machines.                      *)
(*                                                                         *)
(* Time is a counter: every time.Now() of one handler run reads `clock`,   *)
(* and the clock moves on by one when the handler returns.                 *)
(***************************************************************************)
EXTENDS Naturals, Integers, Sequences, FiniteSets, TLC

\* ------------------------------------------------------------------ bounds

\* Handler runs explored from construction (the clock stops there).
MaxTime == 3
\* Longest node list carried by a /nodeinfo response or a /report body.
MaxNodes == 1
\* Largest maxSizeMB handed to CleanupOldResults (the program hands it 10).
MaxBudgetMB == 1
\* Rows one DELETE of the retention pass takes (the program's LIMIT is 1000).
BatchLimit == 2
\* Longest node list merged while the store fails.
MaxListed == 2
\* Loop goroutines one service is seen to start (one for each Start that works).
MaxLoops == 2

\* --------------------------------------------------------------- the world

\* fmt.Sprintf("seed-%s-%s", seedNode.FQDN, seedNode.IP)
SeedID(fqdn, ip) == "seed-" \o fqdn \o "-" \o ip

\* The content of node.id: any non-empty string. The one chosen collides with
\* the first seed entry, so that the seed loader meets its own id.
MyNodeID == "seed-fs-is"

\* seed.json
Seeds == << [FQDN |-> "fs", IP |-> "is"], [FQDN |-> "fa", IP |-> "i1"],
           [FQDN |-> "fb", IP |-> "i2"] >>

\* Ids that peers assert for themselves or for the nodes they list.
PeerIds == { SeedID("fa", "i1"), SeedID("fb", "i2"), "n1" }
NodeIds == PeerIds \cup {MyNodeID}

\* Network locators a peer may report.
Locators == { [FQDN |-> "fa", IP |-> "i1"], [FQDN |-> "fb", IP |-> "i2"] }

\* domain.Node as it arrives on the wire: the merge reads ID, FQDN and IP only.
WireNodes == { [ID |-> id, FQDN |-> l.FQDN, IP |-> l.IP] : id \in NodeIds, l \in Locators }

NodeLists == UNION { [1..n -> WireNodes] : n \in 0..MaxNodes }

\* domain.NodeInfo: the body of a /nodeinfo response.
NodeInfos == { [ID |-> id, FQDN |-> l.FQDN, IP |-> l.IP, Nodes |-> ns] :
                 id \in NodeIds, l \in Locators, ns \in NodeLists }

\* domain.NetworkSnapshot: the body of a POST /report (the timestamp is not read).
NetworkSnapshots == { [NodeID |-> id, Nodes |-> ns] : id \in NodeIds, ns \in NodeLists }

\* The errors GetNodeInfo returns: transport or timeout, status, body.
ProbeErrors == { "failed to make request", "received non-200 status code" }

\* Outcomes of a store call inside an upsert: it works, the lookup fails, or
\* the insert/update fails.
NoFault == "none"
\* What the store answers to one upsert: it works, GetNode fails, or the
\* CreateNode or UpdateNode that follows fails.
Faults == {NoFault, "get", "write"}

\* ---------------------------------------------------------------- helpers

Put(f, k, v) == [x \in (DOMAIN f) \cup {k} |-> IF x = k THEN v ELSE f[x]]

EmptyMap == [x \in {} |-> 0]

Range(s) == { s[i] : i \in DOMAIN s }
Max(S) == CHOOSE x \in S : \A y \in S : y <= x

\* All orders in which a Go map range may visit the keys in S.
Orders(S) == { o \in [1..Cardinality(S) -> S] : Range(o) = S }

\* ------------------------------------------------------------ NodeService

VARIABLES
  knownNodes,   \* NodeService.knownNodes: id -> the record the map points to
  dbNodes,      \* the nodes table: id -> row
  started,      \* Initialize has run in this process
  clock,        \* time.Now()
  nodeIndex,    \* PollingService.nodeIndex
  firstPolls,   \* PollingService.firstPolls: ids marked true
  pollResults,  \* the poll_results table, in insertion order
  mtuTests,     \* id -> number of TestPathMTU calls made for it in this process
  last,         \* observation: what the last handler run was given and did
  snap,         \* observation: the last MergeNodeInfo call, where it is recorded
  cycle,        \* observation: the ticks made since the active set last changed
  fileSize,     \* the size of the database file, as os.Stat reports it
  autoVacuum,   \* the database file gives freed pages back when rows are deleted
  cleanup,      \* the retention pass in flight: where it is, its locals, its result
  task,         \* the goroutines inside NodeService and PollNode: where each is
  mu,           \* NodeService.mu: the writer holding it, the readers holding it
  life,         \* main(), the signal channel, the context and the background loops
  svc,          \* one PollingService under any Start and Stop calls: running,
                \* stopChan, the loop goroutines it has started
  orders,       \* two MergeNodeInfo calls and the registry after them, either way round
  ret           \* what a caller of the NodeService holds: the record it passed to
                \* addOrUpdateNode, the copies it got from GetKnownNodes,
                \* GetActiveNodes or GetNodeByID

\* The registry, the scheduler and their observations.
coreVars == << knownNodes, dbNodes, started, nodeIndex, firstPolls,
               mtuTests, last, snap, cycle >>
\* The retention pass and the file it measures.
retVars == << fileSize, autoVacuum, cleanup >>
\* The goroutines and the lock.
concVars == << task, mu >>
\* The process: main, its context, its loops.
lifeVars == << life, svc >>
\* What callers of the NodeService hold and compare.
obsVars == << orders, ret >>

vars == << knownNodes, dbNodes, started, clock, nodeIndex, firstPolls,
           pollResults, mtuTests, last, snap, cycle, fileSize, autoVacuum,
           cleanup, task, mu, life, svc, orders, ret >>

\* (mutant) the update branch forgets node.FirstSeen = existingNode.FirstSeen
AddOrUpdateNode_NoPreserve(kn, db, node, live, fault) ==
  IF fault = "get"
  THEN [kn |-> kn, db |-> db, err |-> "failed to check existing node"]
  ELSE IF fault = "write"
       THEN [kn |-> kn, db |-> db, err |-> "failed to write node"]
       ELSE [kn |-> Put(kn, node.ID, node), db |-> Put(db, node.ID, node), err |-> ""]

\* addOrUpdateNode, under ns.mu.Lock. `live` says that `node` is the very
\* object knownNodes[node.ID] points to, so that the assignment to
\* node.FirstSeen is seen through the map even when the store write fails.
AddOrUpdateNode(kn, db, node, live, fault) ==
  IF fault = "get"
  THEN [kn |-> kn, db |-> db, err |-> "failed to check existing node"]
  ELSE IF node.ID \notin DOMAIN db
       THEN IF fault = "write"
            THEN [kn |-> kn, db |-> db, err |-> "failed to create node"]
            ELSE [kn |-> Put(kn, node.ID, node), db |-> Put(db, node.ID, node), err |-> ""]
       ELSE LET kept == [node EXCEPT !.FirstSeen = db[node.ID].FirstSeen]
            IN IF fault = "write"
               THEN [kn |-> IF live THEN Put(kn, node.ID, kept) ELSE kn,
                     db |-> db, err |-> "failed to update node"]
               ELSE [kn |-> Put(kn, node.ID, kept), db |-> Put(db, node.ID, kept), err |-> ""]

\* MergeNodeInfo, step 1: the reporting node itself.
MergeSource(kn, db, nodeInfo, discoveredBy, now, fault) ==
  IF nodeInfo.ID # MyNodeID
  THEN AddOrUpdateNode(kn, db,
         [ID |-> nodeInfo.ID, FQDN |-> nodeInfo.FQDN, IP |-> nodeInfo.IP,
          DiscoveredBy |-> discoveredBy, FirstSeen |-> now, LastSeen |-> now,
          IsActive |-> TRUE], FALSE, fault)
  ELSE [kn |-> kn, db |-> db, err |-> ""]

\* (mutant) the loop does not skip the own id
MergeListed_NoSelfSkip(kn, db, node, reporterID, now, fault) ==
  IF node.ID \notin DOMAIN kn
  THEN AddOrUpdateNode(kn, db,
         [ID |-> node.ID, FQDN |-> node.FQDN, IP |-> node.IP,
          DiscoveredBy |-> reporterID, FirstSeen |-> now, LastSeen |-> now,
          IsActive |-> TRUE], FALSE, fault)
  ELSE LET existingNode == [kn[node.ID] EXCEPT !.FQDN = node.FQDN,
                                               !.IP = node.IP,
                                               !.LastSeen = now]
       IN AddOrUpdateNode(Put(kn, node.ID, existingNode), db, existingNode, TRUE, fault)

\* (mutant) a listed node that is known is marked active
MergeListed_Activate(kn, db, node, reporterID, now, fault) ==
  IF node.ID = MyNodeID
  THEN [kn |-> kn, db |-> db, err |-> ""]
  ELSE IF node.ID \notin DOMAIN kn
       THEN AddOrUpdateNode(kn, db,
              [ID |-> node.ID, FQDN |-> node.FQDN, IP |-> node.IP,
               DiscoveredBy |-> reporterID, FirstSeen |-> now, LastSeen |-> now,
               IsActive |-> TRUE], FALSE, fault)
       ELSE LET existingNode == [kn[node.ID] EXCEPT !.FQDN = node.FQDN,
                                                    !.IP = node.IP,
                                                    !.LastSeen = now,
                                                    !.IsActive = TRUE]
            IN AddOrUpdateNode(Put(kn, node.ID, existingNode), db, existingNode, TRUE, fault)

\* (mutant) a listed node that is known is marked inactive
MergeListed_Deactivate(kn, db, node, reporterID, now, fault) ==
  IF node.ID = MyNodeID
  THEN [kn |-> kn, db |-> db, err |-> ""]
  ELSE IF node.ID \notin DOMAIN kn
       THEN AddOrUpdateNode(kn, db,
              [ID |-> node.ID, FQDN |-> node.FQDN, IP |-> node.IP,
               DiscoveredBy |-> reporterID, FirstSeen |-> now, LastSeen |-> now,
               IsActive |-> TRUE], FALSE, fault)
       ELSE LET existingNode == [kn[node.ID] EXCEPT !.FQDN = node.FQDN,
                                                    !.IP = node.IP,
                                                    !.LastSeen = now,
                                                    !.IsActive = FALSE]
            IN AddOrUpdateNode(Put(kn, node.ID, existingNode), db, existingNode, TRUE, fault)

\* MergeNodeInfo, the body of the loop over nodeInfo.Nodes, for one entry.
MergeListed(kn, db, node, reporterID, now, fault) ==
  IF node.ID = MyNodeID
  THEN [kn |-> kn, db |-> db, err |-> ""]
  ELSE IF node.ID \notin DOMAIN kn
       THEN AddOrUpdateNode(kn, db,
              [ID |-> node.ID, FQDN |-> node.FQDN, IP |-> node.IP,
               DiscoveredBy |-> reporterID, FirstSeen |-> now, LastSeen |-> now,
               IsActive |-> TRUE], FALSE, fault)
       ELSE LET existingNode == [kn[node.ID] EXCEPT !.FQDN = node.FQDN,
                                                    !.IP = node.IP,
                                                    !.LastSeen = now]
            IN AddOrUpdateNode(Put(kn, node.ID, existingNode), db, existingNode, TRUE, fault)

\* (mutant) the loop gives up, and hands the error back, at the first upsert
\* that fails
RECURSIVE MergeLoop_Abort(_, _, _, _, _, _, _)
MergeLoop_Abort(kn, db, nodes, i, reporterID, now, faults) ==
  IF i > Len(nodes)
  THEN [kn |-> kn, db |-> db, err |-> ""]
  ELSE LET r == MergeListed(kn, db, nodes[i], reporterID, now, faults[i + 1])
       IN IF r.err # "" THEN r
          ELSE MergeLoop_Abort(r.kn, r.db, nodes, i + 1, reporterID, now, faults)

\* MergeNodeInfo, the loop over nodeInfo.Nodes and the return nil after it:
\* the error of an upsert is logged and the loop goes on.
RECURSIVE MergeLoop(_, _, _, _, _, _, _)
MergeLoop(kn, db, nodes, i, reporterID, now, faults) ==
  IF i > Len(nodes)
  THEN [kn |-> kn, db |-> db, err |-> ""]
  ELSE LET r == MergeListed(kn, db, nodes[i], reporterID, now, faults[i + 1])
       IN MergeLoop(r.kn, r.db, nodes, i + 1, reporterID, now, faults)

\* (mutant) new nodes are credited to the caller's sourceID, not to nodeInfo.ID
MergeNodeInfo_BySource(kn, db, nodeInfo, discoveredBy, now, faults) ==
  LET r == MergeSource(kn, db, nodeInfo, discoveredBy, now, faults[1])
  IN MergeLoop(r.kn, r.db, nodeInfo.Nodes, 1, discoveredBy, now, faults)

\* MergeNodeInfo. faults[1] is the store's answer to the upsert of the
\* reporting node, faults[i + 1] to the upsert of nodeInfo.Nodes[i].
MergeNodeInfo(kn, db, nodeInfo, discoveredBy, now, faults) ==
  LET r == MergeSource(kn, db, nodeInfo, discoveredBy, now, faults[1])
  IN MergeLoop(r.kn, r.db, nodeInfo.Nodes, 1, nodeInfo.ID, now, faults)

NoFaults == [i \in 1..(MaxNodes + Len(Seeds) + 1) |-> NoFault]

\* (mutant) a node marked inactive is dropped from the map and the store
UpdateNodeStatus_Forget(kn, db, nodeID, isActive, fault) ==
  IF nodeID \notin DOMAIN kn
  THEN [kn |-> kn, db |-> db, err |-> "node not found"]
  ELSE IF isActive
       THEN [kn |-> Put(kn, nodeID, [kn[nodeID] EXCEPT !.IsActive = TRUE]),
             db |-> IF nodeID \in DOMAIN db
                    THEN Put(db, nodeID, [kn[nodeID] EXCEPT !.IsActive = TRUE]) ELSE db,
             err |-> ""]
       ELSE [kn |-> [id \in (DOMAIN kn) \ {nodeID} |-> kn[id]],
             db |-> [id \in (DOMAIN db) \ {nodeID} |-> db[id]], err |-> ""]

\* (mutant) an id the map does not hold is not refused: a record is made for it
UpdateNodeStatus_Create(kn, db, nodeID, isActive, fault) ==
  LET node == IF nodeID \in DOMAIN kn
              THEN [kn[nodeID] EXCEPT !.IsActive = isActive]
              ELSE [ID |-> nodeID, FQDN |-> "", IP |-> "", DiscoveredBy |-> "",
                    FirstSeen |-> 0, LastSeen |-> 0, IsActive |-> isActive]
  IN IF fault = "write"
     THEN [kn |-> Put(kn, nodeID, node), db |-> db,
           err |-> "failed to update node status in database"]
     ELSE [kn |-> Put(kn, nodeID, node),
           db |-> IF nodeID \in DOMAIN db THEN Put(db, nodeID, node) ELSE db,
           err |-> ""]

\* UpdateNodeStatus, under ns.mu.Lock.
UpdateNodeStatus(kn, db, nodeID, isActive, fault) ==
  IF nodeID \notin DOMAIN kn
  THEN [kn |-> kn, db |-> db, err |-> "node not found"]
  ELSE LET node == [kn[nodeID] EXCEPT !.IsActive = isActive]
       IN IF fault = "write"
          THEN [kn |-> Put(kn, nodeID, node), db |-> db,
                err |-> "failed to update node status in database"]
          ELSE [kn |-> Put(kn, nodeID, node),
                \* UPDATE ... WHERE id = ? changes a row only if there is one
                db |-> IF nodeID \in DOMAIN db THEN Put(db, nodeID, node) ELSE db,
                err |-> ""]

\* DiscoverNodes: the active records are copied under ns.mu.RLock, and each
\* copy, its LastSeen set to now, is written to its row; the map is not.
DiscoverNodes(kn, db, now) ==
  [kn |-> kn,
   db |-> [id \in DOMAIN db |->
             IF id \in DOMAIN kn /\ kn[id].IsActive
             THEN [kn[id] EXCEPT !.LastSeen = now] ELSE db[id]]]

\* (mutant) the loader upserts every seed, known or not
RECURSIVE LoadSeedNodes_NoKnownCheck(_, _, _, _, _, _)
LoadSeedNodes_NoKnownCheck(kn, db, seeds, i, now, faults) ==
  IF i > Len(seeds)
  THEN [kn |-> kn, db |-> db]
  ELSE LET nodeID == SeedID(seeds[i].FQDN, seeds[i].IP)
       IN IF nodeID = MyNodeID
          THEN LoadSeedNodes_NoKnownCheck(kn, db, seeds, i + 1, now, faults)
          ELSE LET r == AddOrUpdateNode(kn, db,
                          [ID |-> nodeID, FQDN |-> seeds[i].FQDN, IP |-> seeds[i].IP,
                           DiscoveredBy |-> "seed", FirstSeen |-> now, LastSeen |-> now,
                           IsActive |-> TRUE], FALSE, faults[i])
               IN LoadSeedNodes_NoKnownCheck(r.kn, r.db, seeds, i + 1, now, faults)

\* loadSeedNodes, the loop over seedConfig.Nodes from entry i on.
RECURSIVE LoadSeedNodes(_, _, _, _, _, _)
LoadSeedNodes(kn, db, seeds, i, now, faults) ==
  IF i > Len(seeds)
  THEN [kn |-> kn, db |-> db]
  ELSE LET nodeID == SeedID(seeds[i].FQDN, seeds[i].IP)
       IN IF nodeID = MyNodeID \/ nodeID \in DOMAIN kn
          THEN LoadSeedNodes(kn, db, seeds, i + 1, now, faults)
          ELSE LET r == AddOrUpdateNode(kn, db,
                          [ID |-> nodeID, FQDN |-> seeds[i].FQDN, IP |-> seeds[i].IP,
                           DiscoveredBy |-> "seed", FirstSeen |-> now, LastSeen |-> now,
                           IsActive |-> TRUE], FALSE, faults[i])
               IN LoadSeedNodes(r.kn, r.db, seeds, i + 1, now, faults)

\* ------------------------------------------------------------- http.Client

\* discoverPathMTU's candidate sizes.
mtuSizes == << 1500, 1472, 1460, 1400, 1300, 1200, 1000, 800, 576 >>

\* What the path to a peer lets through: payloads up to the capacity are
\* written without error; capacity 0 is a peer that cannot be dialled.
PathCaps == { 0, 1200 }

\* testMTUSize: dial, then write mtu-40 bytes.
TestMTUSize(cap, mtu) == mtu <= cap

\* binarySearchMTU
RECURSIVE BinarySearchMTU(_, _, _)
BinarySearchMTU(cap, min, max) ==
  IF min >= max
  THEN [mtu |-> min, err |-> ""]
  ELSE LET mid == (min + max) \div 2
       IN IF TestMTUSize(cap, mid)
          THEN BinarySearchMTU(cap, mid + 1, max)
          ELSE BinarySearchMTU(cap, min, mid - 1)

\* discoverPathMTU
DiscoverPathMTU(cap) ==
  LET ok == { i \in 1..Len(mtuSizes) : TestMTUSize(cap, mtuSizes[i]) }
  IN IF ok # {}
     THEN [mtu |-> mtuSizes[CHOOSE i \in ok : \A j \in ok : i <= j], err |-> ""]
     ELSE BinarySearchMTU(cap, 576, 1500)

\* TestPathMTU
TestPathMTU(cap) ==
  LET r == DiscoverPathMTU(cap)
  IN IF r.err # "" THEN [mtu |-> 0, err |-> "failed to discover path MTU"] ELSE r

\* What GetNodeInfo returns: an error, or the peer's NodeInfo.
NoInfo == [ID |-> "", FQDN |-> "", IP |-> "", Nodes |-> << >>]
ProbeOutcomes == { [err |-> e, info |-> NoInfo] : e \in ProbeErrors }
                 \cup { [err |-> "", info |-> i] : i \in NodeInfos }

\* --------------------------------------------------------- PollingService

ActiveIds(kn) == { id \in DOMAIN kn : kn[id].IsActive }

\* (mutant) every known node is returned, active or not
GetActiveNodes_All(kn) == Orders(DOMAIN kn)

\* GetActiveNodes: the active records, in the order the map range yields them.
GetActiveNodes(kn) == Orders(ActiveIds(kn))

\* pollNextNode, lines 110-116: drop the own id.
FilterSelf(order) == SelectSeq(order, LAMBDA id : id # MyNodeID)

\* (mutant) the cursor is not reset when it has run past the list
Cursor_NoReset(index, n) == index

\* pollNextNode, lines 123-129: the cursor.
Cursor(index, n) == IF index >= n THEN 0 ELSE index

\* PollNode, under ps.mu: isFirstPoll := !ps.firstPolls[node.ID]
FirstPoll(fp, id) == id \notin fp

\* (mutant) the marker is read and never set
MarkFirstPoll_Never(fp, id) == fp

\* PollNode, under ps.mu: if isFirstPoll { ps.firstPolls[node.ID] = true }
MarkFirstPoll(fp, id) == IF FirstPoll(fp, id) THEN fp \cup {id} ELSE fp

\* (mutant) what GetNodeInfo handed back is merged even when the probe failed
PollNode_MergeOnFailure(kn, db, nodeID, isFirstPoll, cap, outcome, now, faults) ==
  LET result == [NodeID |-> nodeID, PollTime |-> now, Success |-> outcome.err = "",
                 ResponseMs |-> 0, Error |-> outcome.err,
                 PathMTU |-> IF isFirstPoll /\ TestPathMTU(cap).err = ""
                             THEN TestPathMTU(cap).mtu ELSE 0]
      m == MergeNodeInfo(kn, db, outcome.info, nodeID, now, faults)
  IN [result |-> result, kn |-> m.kn, db |-> m.db]

\* (mutant) a failed probe leaves result.Error empty
PollNode_NoErrorText(kn, db, nodeID, isFirstPoll, cap, outcome, now, faults) ==
  LET result == [NodeID |-> nodeID, PollTime |-> now, Success |-> FALSE,
                 ResponseMs |-> 0, Error |-> "", PathMTU |-> 0]
  IN IF outcome.err # ""
     THEN [result |-> result, kn |-> kn, db |-> db]
     ELSE LET m == MergeNodeInfo(kn, db, outcome.info, nodeID, now, faults)
          IN [result |-> [result EXCEPT !.Success = TRUE], kn |-> m.kn, db |-> m.db]

\* PollNode, from the probe on. Returns the PollResult and the registry.
PollNode(kn, db, nodeID, isFirstPoll, cap, outcome, now, faults) ==
  LET mtu == IF isFirstPoll THEN TestPathMTU(cap) ELSE [mtu |-> 0, err |-> "skipped"]
      result == [NodeID |-> nodeID, PollTime |-> now, Success |-> FALSE,
                 ResponseMs |-> 0, Error |-> "",
                 PathMTU |-> IF mtu.err = "" THEN mtu.mtu ELSE 0]
  IN IF outcome.err # ""
     THEN [result |-> [result EXCEPT !.Error = outcome.err], kn |-> kn, db |-> db]
     ELSE LET m == MergeNodeInfo(kn, db, outcome.info, nodeID, now, faults)
          IN [result |-> [result EXCEPT !.Success = TRUE], kn |-> m.kn, db |-> m.db]

\* CreatePollResult
CreatePollResult(rows, result, fault) ==
  IF fault = "write" THEN rows ELSE Append(rows, result)

\* ------------------------------------------------- Repository: retention

Mebibyte == 1024 * 1024

\* net/http status codes
StatusOK == 200
StatusBadRequest == 400
StatusMethodNotAllowed == 405

\* domain.MaxDatabaseSizeMB
MaxDatabaseSizeMB == 10

\* The file grows and shrinks in steps of half a mebibyte; a row of
\* poll_results takes one step, the empty tables take one.
Granule == Mebibyte \div 2
EmptyFileSize == Granule
UsedSize(rows) == EmptyFileSize + Len(rows) * Granule

\* CreatePollResult, seen from the file: free pages are used before it grows.
SizeAfterInsert(size, rows) == IF UsedSize(rows) > size THEN UsedSize(rows) ELSE size

\* DELETE, seen from the file: freed pages stay in it unless it auto-vacuums.
SizeAfterDelete(size, rows, auto) == IF auto THEN UsedSize(rows) ELSE size

\* (mutant) the batch is taken from the newest rows
RECURSIVE Oldest_Newest(_, _, _)
Oldest_Newest(rows, n, taken) ==
  IF n = 0 \/ taken = DOMAIN rows
  THEN taken
  ELSE LET left == (DOMAIN rows) \ taken
           i == CHOOSE i \in left :
                  \A j \in left : \/ rows[i].PollTime > rows[j].PollTime
                                   \/ (rows[i].PollTime = rows[j].PollTime /\ i >= j)
       IN Oldest_Newest(rows, n - 1, taken \cup {i})

\* ORDER BY poll_time ASC LIMIT n: the positions of the n oldest rows (all of
\* them when there are fewer); rows of one poll_time go in insertion order.
RECURSIVE Oldest(_, _, _)
Oldest(rows, n, taken) ==
  IF n = 0 \/ taken = DOMAIN rows
  THEN taken
  ELSE LET left == (DOMAIN rows) \ taken
           i == CHOOSE i \in left :
                  \A j \in left : \/ rows[i].PollTime < rows[j].PollTime
                                   \/ (rows[i].PollTime = rows[j].PollTime /\ i <= j)
       IN Oldest(rows, n - 1, taken \cup {i})

\* Rows of `rows` at the positions outside `gone`, in their order.
RECURSIVE Remaining(_, _, _)
Remaining(rows, gone, i) ==
  IF i > Len(rows) THEN << >>
  ELSE (IF i \in gone THEN << >> ELSE << rows[i] >>) \o Remaining(rows, gone, i + 1)

\* (mutant) the pass deletes one batch and stops
LoopGuard_Once(currentSize, maxSizeBytes) == FALSE

\* CleanupOldResults: for currentSize > maxSizeBytes
LoopGuard(currentSize, maxSizeBytes) == currentSize > maxSizeBytes

\* No retention pass is running.
NoCleanup == [pc |-> "idle", maxSizeBytes |-> 0, currentSize |-> 0, err |-> "",
              batches |-> 0, left |-> 0,
              iters |-> 0, rows0 |-> 0, deleted |-> 0, maxGone |-> -1]

\* The goroutines that may be inside NodeService or PollNode at once.
Tasks == {1, 2}

\* A goroutine outside both. ptr is the *domain.Node it holds (existingNode or
\* newNode); live says that knownNodes[ptr.ID] points to that very object.
IdleTask == [op |-> "", pc |-> "idle", id |-> "", info |-> NoInfo, by |-> "",
             now |-> 0, i |-> 0, ptr |-> NoInfo, live |-> FALSE, first |-> FALSE,
             isActive |-> FALSE]
NoTasks == [t \in Tasks |-> IdleTask]

\* sync.RWMutex: Lock waits for no holder, RLock for no writer.
Unlocked == [writer |-> 0, readers |-> {}]
CanLock(m) == m.writer = 0 /\ m.readers = {}
CanRLock(m) == m.writer = 0

\* ------------------------------------------------------------------- main

\* main() has made its context and its signal channel and is about to call
\* run(); no goroutine has been started.
NotStarted == [pc |-> "start", sigChan |-> 0, signalled |-> FALSE, ctxDone |-> FALSE,
               pollRunning |-> FALSE, pollStop |-> FALSE,
               repRunning |-> FALSE, repStop |-> FALSE,
               poll |-> "none", report |-> "none", retention |-> "none",
               web |-> "none"]

\* NewPollingService: not running, stopChan made and open, no loop yet.
\* `panicked` says that the process died in close(ps.stopChan); `err` is what
\* the last Start or Stop returned.
NewPollingService == [running |-> FALSE, stopChan |-> "open", ctxDone |-> FALSE,
                      panicked |-> FALSE, err |-> "", loops |-> << >>]

\* pollingLoop as it starts: at its select, its ticker not yet fired.
NewLoop == [pc |-> "select", tick |-> FALSE]

\* The cases of the loop's select that can proceed; one of them is taken.
Ready(s, loop) ==
  { c \in {"done"} : s.ctxDone } \cup { c \in {"stop"} : s.stopChan = "closed" }
  \cup { c \in {"tick"} : loop.tick }

\* A loop's select: ctx.Done() or a closed stopChan ends the loop, else the
\* ticker's next tick is taken.
Select(done, stopped) == IF done \/ stopped THEN "exited" ELSE "work"

\* ---------------------------------------------------------------- actions

NoSnap == [nodeInfo |-> NoInfo, discoveredBy |-> ""]
NoOrders == [first |-> NoSnap, second |-> NoSnap, fwd |-> EmptyMap, bwd |-> EmptyMap]
NoRet == [op |-> "none", nodes |-> << >>, shared |-> FALSE]
NoCycle == [set |-> {}, probed |-> << >>]
Idle(op) == [op |-> op, target |-> "", ok |-> TRUE, id |-> "", listed |-> {}]
ListedIds(nodes) == { nodes[i].ID : i \in DOMAIN nodes }

\* The ticks of a cycle stay comparable while the active set stays the same.
KeepCycle(knAfter) ==
  IF ActiveIds(knAfter) = ActiveIds(knownNodes) THEN cycle ELSE NoCycle

InitState ==
  /\ knownNodes = EmptyMap
  /\ dbNodes = EmptyMap
  /\ started = FALSE
  /\ clock = 0
  /\ nodeIndex = 0
  /\ firstPolls = {}
  /\ pollResults = << >>
  /\ mtuTests = [id \in NodeIds |-> 0]
  /\ last = Idle("new")
  /\ snap = NoSnap
  /\ cycle = NoCycle
  /\ fileSize = EmptyFileSize
  /\ cleanup = NoCleanup
  /\ task = NoTasks
  /\ mu = Unlocked
  /\ life = NotStarted
  /\ svc = NewPollingService
  /\ orders = NoOrders
  /\ ret = NoRet

Init == InitState /\ autoVacuum = FALSE

\* NodeService.Initialize, called once by run() before the services start:
\* the rows of the store become the map, then the seeds are added.
Initialize ==
  /\ ~started
  /\ clock < MaxTime
  /\ LET r == LoadSeedNodes(dbNodes, dbNodes, Seeds, 1, clock, NoFaults)
     IN /\ knownNodes' = r.kn
        /\ dbNodes' = r.db
  /\ started' = TRUE
  /\ clock' = clock + 1
  /\ last' = Idle("init")
  /\ cycle' = NoCycle
  /\ UNCHANGED << nodeIndex, firstPolls, pollResults, mtuTests, snap >>
  /\ UNCHANGED << retVars, concVars, lifeVars, obsVars >>

\* The process ends and main() runs again: memory is lost, the store is kept.
Restart ==
  /\ started
  /\ knownNodes' = EmptyMap
  /\ started' = FALSE
  /\ nodeIndex' = 0
  /\ firstPolls' = {}
  /\ mtuTests' = [id \in NodeIds |-> 0]
  /\ last' = Idle("new")
  /\ cycle' = NoCycle
  /\ snap' = NoSnap
  /\ UNCHANGED << dbNodes, clock, pollResults >>
  /\ UNCHANGED << retVars, concVars, lifeVars, obsVars >>

\* WebServer.handleReport with a body that decodes.
HandleReport ==
  /\ started
  /\ clock < MaxTime
  /\ \E snapshot \in NetworkSnapshots :
       LET nodeInfo == [ID |-> snapshot.NodeID, FQDN |-> "", IP |-> "",
                        Nodes |-> snapshot.Nodes]
           r == MergeNodeInfo(knownNodes, dbNodes, nodeInfo, "report", clock, NoFaults)
       IN /\ knownNodes' = r.kn
          /\ dbNodes' = r.db
          /\ cycle' = KeepCycle(r.kn)
          /\ last' = [op |-> "report", target |-> "", ok |-> TRUE,
                      id |-> snapshot.NodeID, listed |-> ListedIds(snapshot.Nodes)]
  /\ clock' = clock + 1
  /\ UNCHANGED << started, nodeIndex, firstPolls, pollResults, mtuTests, snap >>
  /\ UNCHANGED << retVars, concVars, lifeVars, obsVars >>

\* PollingService.pollNextNode: one tick of the polling loop.
PollNextNode ==
  /\ started
  /\ clock < MaxTime
  /\ \E nodes \in GetActiveNodes(knownNodes) :
       LET filteredNodes == FilterSelf(nodes)
       IN IF Len(filteredNodes) = 0
          THEN /\ last' = Idle("idle")
               /\ UNCHANGED << knownNodes, dbNodes, nodeIndex, firstPolls,
                               pollResults, mtuTests, cycle >>
          ELSE IF Cursor(nodeIndex, Len(filteredNodes)) >= Len(filteredNodes)
          THEN \* &filteredNodes[nodeToPolI] past the end: a run-time panic
               /\ nodeIndex' = Cursor(nodeIndex, Len(filteredNodes)) + 1
               /\ last' = Idle("panic")
               /\ UNCHANGED << knownNodes, dbNodes, firstPolls, pollResults,
                               mtuTests, cycle >>
          ELSE LET nodeToPolI == Cursor(nodeIndex, Len(filteredNodes))
                   nodeToPoll == filteredNodes[nodeToPolI + 1]
                   isFirstPoll == FirstPoll(firstPolls, nodeToPoll)
               IN \E cap \in (IF isFirstPoll THEN PathCaps ELSE {0}),
                     outcome \in ProbeOutcomes :
                    LET p == PollNode(knownNodes, dbNodes, nodeToPoll, isFirstPoll,
                                      cap, outcome, clock, NoFaults)
                        u == UpdateNodeStatus(p.kn, p.db, nodeToPoll,
                                              p.result.Success, NoFault)
                    IN /\ nodeIndex' = nodeToPolI + 1
                       /\ firstPolls' = MarkFirstPoll(firstPolls, nodeToPoll)
                       /\ mtuTests' = IF isFirstPoll
                                      THEN [mtuTests EXCEPT ![nodeToPoll] = @ + 1]
                                      ELSE mtuTests
                       /\ pollResults' = CreatePollResult(pollResults, p.result, NoFault)
                       /\ knownNodes' = u.kn
                       /\ dbNodes' = u.db
                       /\ cycle' = [set |-> Range(filteredNodes),
                                    probed |-> Append(IF cycle.set = Range(filteredNodes)
                                                      THEN cycle.probed ELSE << >>,
                                                      nodeToPoll)]
                       /\ last' = [op |-> "tick", target |-> nodeToPoll,
                                   ok |-> p.result.Success, id |-> outcome.info.ID,
                                   listed |-> ListedIds(outcome.info.Nodes),
                                   cap |-> cap]
  /\ clock' = clock + 1
  /\ UNCHANGED << started, snap >>
  /\ UNCHANGED << retVars, concVars, lifeVars, obsVars >>

Next == Initialize \/ Restart \/ HandleReport \/ PollNextNode

Spec == Init /\ [][Next]_vars

\* ------------------------------------------- the NodeService, call by call

\* The MergeNodeInfo calls the program makes: PollNode passes the id of the
\* registry peer it probed, handleReport passes "report" and no locators.
MergeCalls(kn) ==
  { [nodeInfo |-> i, discoveredBy |-> src] : i \in NodeInfos, src \in ActiveIds(kn) }
  \cup { [nodeInfo |-> [ID |-> s.NodeID, FQDN |-> "", IP |-> "", Nodes |-> s.Nodes],
          discoveredBy |-> "report"] : s \in NetworkSnapshots }

\* One MergeNodeInfo call; the call is recorded in snap.
CallMergeNodeInfo ==
  /\ started
  /\ clock < MaxTime
  /\ \E call \in MergeCalls(knownNodes) :
       LET r == MergeNodeInfo(knownNodes, dbNodes, call.nodeInfo, call.discoveredBy,
                              clock, NoFaults)
       IN /\ knownNodes' = r.kn
          /\ dbNodes' = r.db
          /\ snap' = call
          /\ last' = [op |-> IF call = snap THEN "remerge" ELSE "merge",
                      target |-> "", ok |-> TRUE, id |-> call.nodeInfo.ID,
                      listed |-> ListedIds(call.nodeInfo.Nodes)]
  /\ clock' = clock + 1
  /\ UNCHANGED << started, nodeIndex, firstPolls, pollResults, mtuTests, cycle >>
  /\ UNCHANGED << retVars, concVars, lifeVars, obsVars >>

\* One UpdateNodeStatus call (pollNextNode makes it after every probe).
CallUpdateNodeStatus ==
  /\ started
  /\ \E nodeID \in PeerIds, isActive \in BOOLEAN :
       LET r == UpdateNodeStatus(knownNodes, dbNodes, nodeID, isActive, NoFault)
       IN /\ knownNodes' = r.kn
          /\ dbNodes' = r.db
          /\ last' = [op |-> "status", target |-> nodeID, ok |-> r.err = "",
                      id |-> "", listed |-> {}, isActive |-> isActive]
  /\ snap' = NoSnap
  /\ UNCHANGED << started, clock, nodeIndex, firstPolls, pollResults, mtuTests, cycle >>
  /\ UNCHANGED << retVars, concVars, lifeVars, obsVars >>

\* Two MergeNodeInfo calls, one after the other. Beside the registry they
\* leave, orders keeps the registry the same two calls leave from the same
\* start when the second is made first. One pair is compared in a run.
MergeBothOrders ==
  /\ started
  /\ clock + 1 < MaxTime
  /\ orders = NoOrders
  /\ \E s1 \in MergeCalls(knownNodes), s2 \in MergeCalls(knownNodes) :
       LET Apply(kn, db, s, now) ==
             MergeNodeInfo(kn, db, s.nodeInfo, s.discoveredBy, now, NoFaults)
           a  == Apply(knownNodes, dbNodes, s1, clock)
           ab == Apply(a.kn, a.db, s2, clock + 1)
           b  == Apply(knownNodes, dbNodes, s2, clock)
           ba == Apply(b.kn, b.db, s1, clock + 1)
       IN /\ knownNodes' = ab.kn
          /\ dbNodes' = ab.db
          /\ orders' = [first |-> s1, second |-> s2, fwd |-> ab.kn, bwd |-> ba.kn]
          /\ snap' = s2
          /\ last' = [op |-> "merge", target |-> "", ok |-> TRUE, id |-> s2.nodeInfo.ID,
                      listed |-> ListedIds(s2.nodeInfo.Nodes)]
  /\ clock' = clock + 2
  /\ UNCHANGED << started, nodeIndex, firstPolls, pollResults, mtuTests, cycle, ret >>
  /\ UNCHANGED << retVars, concVars, lifeVars >>

\* The liveness updates make the registries the pair starts from.
StatusBeforeOrders == orders = NoOrders /\ CallUpdateNodeStatus

OrderNext == Initialize \/ StatusBeforeOrders \/ MergeBothOrders

OrderSpec == Init /\ [][OrderNext]_vars

\* ------------------------------------------------- callers that read

\* GetKnownNodes: every record, in the order the map range yields them.
GetKnownNodes(kn) == Orders(DOMAIN kn)

\* (mutant) the slice holds the map's own records, not copies
Returned_Pointers(kn, ids) == [nodes |-> [i \in DOMAIN ids |-> kn[ids[i]]], shared |-> TRUE]

\* What GetKnownNodes, GetActiveNodes (append(nodes, *node)) and GetNodeByID
\* (nodeCopy := *node) hand out for the ids in `ids`: copies of the records.
Returned(kn, ids) == [nodes |-> [i \in DOMAIN ids |-> kn[ids[i]]], shared |-> FALSE]

\* The records the caller reads through what it holds.
Seen == IF ret.shared
        THEN [i \in DOMAIN ret.nodes |-> knownNodes[ret.nodes[i].ID]]
        ELSE ret.nodes

\* One GetKnownNodes, GetActiveNodes or GetNodeByID call that finds something.
CallGet ==
  /\ started
  /\ \E op \in {"all", "active", "byID"} :
       \E ids \in (CASE op = "all" -> GetKnownNodes(knownNodes)
                      [] op = "active" -> GetActiveNodes(knownNodes)
                      [] OTHER -> { << id >> : id \in DOMAIN knownNodes }) :
         ret' = [op |-> op] @@ Returned(knownNodes, ids)
  /\ UNCHANGED << coreVars, clock, pollResults, orders >>
  /\ UNCHANGED << retVars, concVars, lifeVars >>

\* The caller assigns to a field of a record it got.
CallerWrites ==
  /\ ret.op \in {"all", "active", "byID"}
  /\ \E i \in DOMAIN ret.nodes :
       LET node == [Seen[i] EXCEPT !.IsActive = ~@, !.FQDN = "mine"]
       IN IF ret.shared
          THEN /\ knownNodes' = Put(knownNodes, node.ID, node)
               /\ ret' = [ret EXCEPT !.op = "written"]
          ELSE /\ knownNodes' = knownNodes
               /\ ret' = [ret EXCEPT !.op = "written", !.nodes[i] = node]
  /\ UNCHANGED << dbNodes, started, clock, nodeIndex, firstPolls, pollResults,
                  mtuTests, last, snap, cycle, orders >>
  /\ UNCHANGED << retVars, concVars, lifeVars >>

\* A report and liveness updates make the registry that is read.
ReportBeforeRead == ret = NoRet /\ clock + 1 < MaxTime /\ HandleReport
StatusBeforeRead == ret = NoRet /\ CallUpdateNodeStatus

\* A registry is built, then read again and again.
ReadNext == Initialize \/ ReportBeforeRead \/ StatusBeforeRead \/ CallGet

ReadSpec == Init /\ [][ReadNext]_vars

\* A report while a caller holds a result.
ReportAfterRead == ret # NoRet /\ clock + 1 < MaxTime /\ HandleReport

\* The seeds are read; the caller and the registry's writers go on.
CopyNext ==
  Initialize \/ CallGet \/ CallerWrites \/ CallUpdateNodeStatus \/ ReportAfterRead

CopySpec == Init /\ [][CopyNext]_vars

\* ------------------------------------------- the store fails now and then

\* The records MergeNodeInfo builds for the reporting node or for a node new
\* to the map, and hands to addOrUpdateNode.
FreshNodes(now) ==
  { [ID |-> id, FQDN |-> l.FQDN, IP |-> l.IP, DiscoveredBy |-> by,
     FirstSeen |-> now, LastSeen |-> now, IsActive |-> TRUE] :
      id \in PeerIds, l \in Locators, by \in {"report", SeedID("fa", "i1")} }

\* One addOrUpdateNode call with a fresh record; ret keeps the record passed,
\* last.ok says whether nil came back.
CallAddOrUpdateNode ==
  /\ started
  /\ clock < MaxTime
  /\ \E node \in FreshNodes(clock), fault \in Faults :
       LET r == AddOrUpdateNode(knownNodes, dbNodes, node, FALSE, fault)
       IN /\ knownNodes' = r.kn
          /\ dbNodes' = r.db
          /\ ret' = [op |-> "upsert", nodes |-> << node >>, shared |-> r.err = ""]
          /\ last' = [op |-> "upsert", target |-> node.ID, ok |-> r.err = "",
                      id |-> "", listed |-> {}]
  /\ snap' = NoSnap
  /\ clock' = clock + 1
  /\ UNCHANGED << started, nodeIndex, firstPolls, pollResults, mtuTests, cycle, orders >>
  /\ UNCHANGED << retVars, concVars, lifeVars >>

\* The lists a failing store is tried with: up to MaxListed entries, each
\* for the own id, a seed or a stranger.
FaultWire == { n \in WireNodes : n.FQDN = "fa" /\ n.ID # SeedID("fb", "i2") }
FaultLists == UNION { [1..n -> FaultWire] : n \in 0..MaxListed }

\* One MergeNodeInfo call (of a /report body) while the store fails at some
\* of its upserts; last keeps what the store answered and what came back.
CallMergeNodeInfoFaulty ==
  /\ started
  /\ clock + 1 < MaxTime
  /\ \E id \in NodeIds, nodes \in FaultLists, faults \in [1..(MaxListed + 1) -> Faults] :
       LET nodeInfo == [ID |-> id, FQDN |-> "", IP |-> "", Nodes |-> nodes]
           r == MergeNodeInfo(knownNodes, dbNodes, nodeInfo, "report", clock, faults)
       IN /\ knownNodes' = r.kn
          /\ dbNodes' = r.db
          /\ snap' = [nodeInfo |-> nodeInfo, discoveredBy |-> "report"]
          /\ last' = [op |-> "merge", target |-> "", ok |-> r.err = "", id |-> id,
                      listed |-> ListedIds(nodes), faults |-> faults]
  /\ clock' = clock + 1
  /\ UNCHANGED << started, nodeIndex, firstPolls, pollResults, mtuTests, cycle >>
  /\ UNCHANGED << retVars, concVars, lifeVars, obsVars >>

FaultNext == Initialize \/ CallAddOrUpdateNode \/ CallMergeNodeInfoFaulty

FaultSpec == Init /\ [][FaultNext]_vars

RegistryNext == Initialize \/ CallMergeNodeInfo \/ CallUpdateNodeStatus

RegistrySpec == Init /\ [][RegistryNext]_vars

\* A peer is marked inactive between two ticks (as a tick that failed to
\* reach it does).
StatusBetweenTicks ==
  /\ clock < MaxTime
  /\ CallUpdateNodeStatus
  /\ last'.ok /\ ~last'.isActive

\* (mutant) a tick whose poll result cannot be stored gives up with the error
StoreAndUpdate_StopOnError(rows, kn, db, result, rowFault) ==
  IF rowFault = "write"
  THEN [rows |-> rows, kn |-> kn, db |-> db, err |-> "failed to create poll result"]
  ELSE LET u == UpdateNodeStatus(kn, db, result.NodeID, result.Success, NoFault)
       IN [rows |-> Append(rows, result), kn |-> u.kn, db |-> u.db, err |-> ""]

\* pollNextNode once PollNode has returned: the result is stored, the status
\* of the target updated, the error of either is logged, nil is returned.
StoreAndUpdate(rows, kn, db, result, rowFault) ==
  LET u == UpdateNodeStatus(kn, db, result.NodeID, result.Success, NoFault)
  IN [rows |-> CreatePollResult(rows, result, rowFault), kn |-> u.kn, db |-> u.db,
      err |-> ""]

\* pollNextNode while the store may refuse the poll result; last keeps what
\* the store answered and what the tick returned.
PollNextNodeFaulty ==
  /\ started
  /\ clock < MaxTime
  /\ \E nodes \in GetActiveNodes(knownNodes) :
       LET filteredNodes == FilterSelf(nodes)
       IN /\ Len(filteredNodes) > 0
          /\ LET nodeToPolI == Cursor(nodeIndex, Len(filteredNodes))
                 nodeToPoll == filteredNodes[nodeToPolI + 1]
                 isFirstPoll == FirstPoll(firstPolls, nodeToPoll)
             IN \E cap \in (IF isFirstPoll THEN PathCaps ELSE {0}),
                   outcome \in ProbeOutcomes, rowFault \in {NoFault, "write"} :
                  LET p == PollNode(knownNodes, dbNodes, nodeToPoll, isFirstPoll,
                                    cap, outcome, clock, NoFaults)
                      r == StoreAndUpdate(pollResults, p.kn, p.db, p.result, rowFault)
                  IN /\ nodeIndex' = nodeToPolI + 1
                     /\ firstPolls' = MarkFirstPoll(firstPolls, nodeToPoll)
                     /\ mtuTests' = IF isFirstPoll
                                    THEN [mtuTests EXCEPT ![nodeToPoll] = @ + 1]
                                    ELSE mtuTests
                     /\ pollResults' = r.rows
                     /\ knownNodes' = r.kn
                     /\ dbNodes' = r.db
                     /\ last' = [op |-> "tick", target |-> nodeToPoll,
                                 ok |-> p.result.Success, id |-> outcome.info.ID,
                                 listed |-> ListedIds(outcome.info.Nodes),
                                 rowFault |-> rowFault, err |-> r.err,
                                 before |-> last.op]
  /\ clock' = clock + 1
  /\ UNCHANGED << started, snap, cycle >>
  /\ UNCHANGED << retVars, concVars, lifeVars, obsVars >>

FaultyTickNext == Initialize \/ PollNextNodeFaulty

FaultyTickSpec == Init /\ [][FaultyTickNext]_vars

\* One DiscoverNodes call.
CallDiscoverNodes ==
  /\ started
  /\ clock < MaxTime
  /\ LET r == DiscoverNodes(knownNodes, dbNodes, clock)
     IN /\ knownNodes' = r.kn
        /\ dbNodes' = r.db
  /\ last' = Idle("discover")
  /\ snap' = NoSnap
  /\ clock' = clock + 1
  /\ UNCHANGED << started, nodeIndex, firstPolls, pollResults, mtuTests, cycle >>
  /\ UNCHANGED << retVars, concVars, lifeVars, obsVars >>

\* The operations of the NodeService interface, one call at a time.
InterfaceNext ==
  Initialize \/ CallMergeNodeInfo \/ CallUpdateNodeStatus \/ CallDiscoverNodes

InterfaceSpec == Init /\ [][InterfaceNext]_vars

\* The polling loop's ticks, with the active list changing between them.
TickNext == Initialize \/ StatusBetweenTicks \/ PollNextNode

TickSpec == Init /\ [][TickNext]_vars

\* ------------------------------------------- goroutines inside the services

\* The snapshots the tasks merge: from self, a seed or a stranger, listing
\* nothing, a seed or a stranger.
TaskNodeLists == { ns \in NodeLists :
                    \A i \in DOMAIN ns : ns[i].ID \in {SeedID("fa", "i1"), "n1"} }
TaskNodeInfos == { i \in NodeInfos : /\ i.ID \in {MyNodeID, SeedID("fa", "i1"), "n1"}
                                     /\ i.FQDN = "fa"
                                     /\ i.Nodes \in TaskNodeLists }
TaskSnapshots == { r \in NetworkSnapshots : /\ r.NodeID \in {MyNodeID, SeedID("fa", "i1"), "n1"}
                                            /\ r.Nodes \in TaskNodeLists }

\* The tasks other than t that hold the object knownNodes[id] points to keep
\* it, with what it holds now, when the map is made to point elsewhere.
Detached(t, id, replaced) ==
  [u \in Tasks |->
     IF replaced /\ u # t /\ task[u].live /\ task[u].ptr.ID = id
     THEN [task[u] EXCEPT !.ptr = knownNodes[id], !.live = FALSE]
     ELSE task[u]]

\* PollNode up to the probe: the marker is checked and set under ps.mu.
PollBegin(t) ==
  /\ started /\ clock < MaxTime
  /\ task[t].pc = "idle"
  /\ \E id \in DOMAIN knownNodes :
       /\ task' = [task EXCEPT ![t] = [IdleTask EXCEPT
                     !.op = "poll", !.id = id, !.first = FirstPoll(firstPolls, id),
                     !.pc = IF FirstPoll(firstPolls, id) THEN "mtu" ELSE "probe"]]
       /\ firstPolls' = MarkFirstPoll(firstPolls, id)
  /\ clock' = clock + 1
  /\ UNCHANGED << knownNodes, dbNodes, started, nodeIndex, pollResults, mtuTests,
                  last, snap, cycle, retVars, mu, lifeVars, obsVars >>

\* PollNode: the TestPathMTU call of a first poll.
PollMTU(t) ==
  /\ task[t].pc = "mtu"
  /\ mtuTests' = [mtuTests EXCEPT ![task[t].id] = @ + 1]
  /\ task' = [task EXCEPT ![t].pc = "probe"]
  /\ UNCHANGED << knownNodes, dbNodes, started, clock, nodeIndex, firstPolls,
                  pollResults, last, snap, cycle, retVars, mu, lifeVars, obsVars >>

\* MergeNodeInfo up to its first lock: now := time.Now().
Merging(t, op, nodeInfo, discoveredBy) ==
  [IdleTask EXCEPT !.op = op, !.info = nodeInfo, !.by = discoveredBy, !.now = clock,
                   !.id = task[t].id, !.first = task[t].first, !.i = 1,
                   !.pc = IF nodeInfo.ID # MyNodeID THEN "source" ELSE "loop"]

\* PollNode: GetNodeInfo; an error ends the call, a response is merged.
PollProbe(t) ==
  /\ task[t].pc = "probe"
  /\ \E outcome \in { o \in ProbeOutcomes : o.err # "" \/ o.info \in TaskNodeInfos } :
       task' = [task EXCEPT ![t] = IF outcome.err # "" THEN IdleTask
                                   ELSE Merging(t, "poll", outcome.info, task[t].id)]
  /\ UNCHANGED << coreVars, clock, pollResults, retVars, mu, lifeVars, obsVars >>

\* handleReport: the body decodes, MergeNodeInfo is entered.
ReportBegin(t) ==
  /\ started /\ clock < MaxTime
  /\ task[t].pc = "idle"
  /\ \E snapshot \in TaskSnapshots :
       task' = [task EXCEPT ![t] =
                  Merging(t, "report", [ID |-> snapshot.NodeID, FQDN |-> "", IP |-> "",
                                        Nodes |-> snapshot.Nodes], "report")]
  /\ clock' = clock + 1
  /\ UNCHANGED << coreVars, pollResults, retVars, mu, lifeVars, obsVars >>

\* addOrUpdateNode takes ns.mu (for the reporting node, or for a listed one).
UpsertLock(t) ==
  /\ task[t].pc \in {"source", "upsert"}
  /\ CanLock(mu)
  /\ mu' = [mu EXCEPT !.writer = t]
  /\ task' = [task EXCEPT ![t].pc = IF @ = "source" THEN "sourceLocked" ELSE "upsertLocked"]
  /\ UNCHANGED << coreVars, clock, pollResults, retVars, lifeVars, obsVars >>

\* MergeNodeInfo, step 1: the upsert of a fresh record for the reporting node.
SourceUpsert(t) ==
  /\ task[t].pc = "sourceLocked"
  /\ LET r == MergeSource(knownNodes, dbNodes, task[t].info, task[t].by,
                          task[t].now, NoFault)
         id == task[t].info.ID
     IN /\ knownNodes' = r.kn
        /\ dbNodes' = r.db
        /\ task' = [Detached(t, id, id \in DOMAIN knownNodes) EXCEPT ![t].pc = "loop"]
  /\ mu' = Unlocked
  /\ UNCHANGED << started, clock, nodeIndex, firstPolls, pollResults, mtuTests,
                  last, snap, cycle, retVars, lifeVars, obsVars >>

\* MergeNodeInfo, the loop: past the end it returns, the own id is skipped,
\* any other id is looked up under ns.mu.RLock.
MergeLookup(t) ==
  /\ task[t].pc = "loop"
  /\ LET nodes == task[t].info.Nodes
         i == task[t].i
     IN IF i > Len(nodes)
        THEN task' = [task EXCEPT ![t] = IdleTask]
        ELSE IF nodes[i].ID = MyNodeID
             THEN task' = [task EXCEPT ![t].i = i + 1]
             ELSE /\ CanRLock(mu)
                  /\ task' = [task EXCEPT ![t] =
                       IF nodes[i].ID \in DOMAIN knownNodes
                       THEN [@ EXCEPT !.pc = "write", !.live = TRUE,
                                      !.ptr = knownNodes[nodes[i].ID]]
                       ELSE [@ EXCEPT !.pc = "upsert", !.live = FALSE,
                                      !.ptr = [ID |-> nodes[i].ID, FQDN |-> nodes[i].FQDN,
                                               IP |-> nodes[i].IP,
                                               DiscoveredBy |-> task[t].info.ID,
                                               FirstSeen |-> task[t].now,
                                               LastSeen |-> task[t].now,
                                               IsActive |-> TRUE]]]
  /\ UNCHANGED << coreVars, clock, pollResults, retVars, mu, lifeVars, obsVars >>

\* (mutant) the merge works on a copy of the record it read from the cache
Held_Copy(t) == task[t].ptr

\* The object task t holds, as it is now.
Held(t) == IF task[t].live THEN knownNodes[task[t].ptr.ID] ELSE task[t].ptr

\* MergeNodeInfo, the known node: existingNode.FQDN, .IP and .LastSeen are
\* assigned with no lock held.
MergeWrite(t) ==
  /\ task[t].pc = "write"
  /\ LET node == task[t].info.Nodes[task[t].i]
         existingNode == [Held(t) EXCEPT !.FQDN = node.FQDN, !.IP = node.IP,
                                         !.LastSeen = task[t].now]
     IN /\ knownNodes' = IF task[t].live THEN Put(knownNodes, node.ID, existingNode)
                         ELSE knownNodes
        /\ task' = [task EXCEPT ![t].ptr = existingNode, ![t].pc = "upsert"]
  /\ UNCHANGED << dbNodes, started, clock, nodeIndex, firstPolls, pollResults,
                  mtuTests, last, snap, cycle, retVars, mu, lifeVars, obsVars >>

\* MergeNodeInfo, the loop: the upsert of the object held, new or known.
ListedUpsert(t) ==
  /\ task[t].pc = "upsertLocked"
  /\ LET id == task[t].ptr.ID
         r == AddOrUpdateNode(knownNodes, dbNodes, Held(t), task[t].live, NoFault)
     IN /\ knownNodes' = r.kn
        /\ dbNodes' = r.db
        /\ task' = [Detached(t, id, ~task[t].live /\ id \in DOMAIN knownNodes)
                      EXCEPT ![t] = [task[t] EXCEPT !.pc = "loop", !.i = @ + 1,
                                                    !.ptr = NoInfo, !.live = FALSE]]
        \* seen from outside: the record written back, and whether its
        \* is_active was cleared after the merge had read it
        /\ last' = [op |-> "upsert", target |-> id, ok |-> r.err = "",
                    id |-> task[t].info.ID, listed |-> {},
                    flipped |-> /\ task[t].live
                                /\ task[t].ptr.IsActive
                                /\ ~knownNodes[id].IsActive]
  /\ mu' = Unlocked
  /\ UNCHANGED << started, clock, nodeIndex, firstPolls, pollResults, mtuTests,
                  snap, cycle, retVars, lifeVars, obsVars >>

\* UpdateNodeStatus takes ns.mu.
StatusLock(t) ==
  /\ started /\ clock < MaxTime
  /\ task[t].pc = "idle"
  /\ CanLock(mu)
  /\ \E nodeID \in PeerIds, isActive \in BOOLEAN :
       task' = [task EXCEPT ![t] = [IdleTask EXCEPT !.op = "status", !.id = nodeID,
                                                   !.pc = "statusLocked",
                                                   !.isActive = isActive]]
  /\ mu' = [mu EXCEPT !.writer = t]
  /\ clock' = clock + 1
  /\ UNCHANGED << coreVars, pollResults, retVars, lifeVars, obsVars >>

\* UpdateNodeStatus: node.IsActive is assigned, the row written, ns.mu given up.
StatusUnlock(t) ==
  /\ task[t].pc = "statusLocked"
  /\ LET r == UpdateNodeStatus(knownNodes, dbNodes, task[t].id, task[t].isActive, NoFault)
     IN /\ knownNodes' = r.kn
        /\ dbNodes' = r.db
  /\ task' = [task EXCEPT ![t] = IdleTask]
  /\ mu' = Unlocked
  /\ UNCHANGED << started, clock, nodeIndex, firstPolls, pollResults, mtuTests,
                  last, snap, cycle, retVars, lifeVars, obsVars >>

\* GetKnownNodes and GetActiveNodes (id "": every record is copied) or
\* GetNodeByID (one record is copied) take ns.mu.RLock.
ReadLock(t) ==
  /\ started /\ clock < MaxTime
  /\ task[t].pc = "idle"
  /\ CanRLock(mu)
  /\ \E id \in {""} \cup DOMAIN knownNodes :
       task' = [task EXCEPT ![t] = [IdleTask EXCEPT !.op = "read", !.id = id,
                                                   !.pc = "reading"]]
  /\ mu' = [mu EXCEPT !.readers = @ \cup {t}]
  /\ clock' = clock + 1
  /\ UNCHANGED << coreVars, pollResults, retVars, lifeVars, obsVars >>

\* The copy is made, ns.mu.RUnlock.
ReadUnlock(t) ==
  /\ task[t].pc = "reading"
  /\ task' = [task EXCEPT ![t] = IdleTask]
  /\ mu' = [mu EXCEPT !.readers = @ \ {t}]
  /\ UNCHANGED << coreVars, clock, pollResults, retVars, lifeVars, obsVars >>

ConcNext ==
  \/ Initialize
  \/ \E t \in Tasks : PollBegin(t)
  \/ \E t \in Tasks : PollMTU(t)
  \/ \E t \in Tasks : PollProbe(t)
  \/ \E t \in Tasks : ReportBegin(t)
  \/ \E t \in Tasks : UpsertLock(t)
  \/ \E t \in Tasks : SourceUpsert(t)
  \/ \E t \in Tasks : MergeLookup(t)
  \/ \E t \in Tasks : MergeWrite(t)
  \/ \E t \in Tasks : ListedUpsert(t)
  \/ \E t \in Tasks : StatusLock(t)
  \/ \E t \in Tasks : StatusUnlock(t)
  \/ \E t \in Tasks : ReadLock(t)
  \/ \E t \in Tasks : ReadUnlock(t)

ConcSpec == Init /\ [][ConcNext]_vars

\* ------------------------------------------------------ the retention pass

\* A poll tick appends its row while the pass may be anywhere.
InsertPollResult ==
  /\ clock < MaxTime
  /\ \E success \in BOOLEAN :
       pollResults' = CreatePollResult(pollResults,
                        [NodeID |-> SeedID("fa", "i1"), PollTime |-> clock,
                         Success |-> success, ResponseMs |-> 0,
                         Error |-> IF success THEN "" ELSE "failed to make request",
                         PathMTU |-> 0], NoFault)
  /\ fileSize' = SizeAfterInsert(fileSize, pollResults')
  /\ clock' = clock + 1
  /\ UNCHANGED << coreVars, autoVacuum, cleanup, concVars, lifeVars, obsVars >>

\* (mutant) the pass goes to its delete loop whatever the size it measured
CleanupBegin_Unconditional ==
  /\ cleanup.pc = "idle"
  /\ \E maxSizeMB \in 0..MaxBudgetMB :
       cleanup' = [pc |-> "delete", maxSizeBytes |-> maxSizeMB * 1024 * 1024,
                   currentSize |-> fileSize, err |-> "", batches |-> 0,
                   left |-> Len(pollResults), iters |-> 0,
                   rows0 |-> Len(pollResults), deleted |-> 0, maxGone |-> -1]
  /\ UNCHANGED << coreVars, clock, pollResults, fileSize, autoVacuum, concVars, lifeVars, obsVars >>

\* CleanupOldResults, up to the loop: measure, return if within the budget.
CleanupBegin ==
  /\ cleanup.pc = "idle"
  /\ \E maxSizeMB \in 0..MaxBudgetMB :
       LET maxSizeBytes == maxSizeMB * 1024 * 1024
       IN cleanup' = [pc |-> IF fileSize <= maxSizeBytes THEN "returned" ELSE "delete",
                      maxSizeBytes |-> maxSizeBytes, currentSize |-> fileSize,
                      err |-> "", batches |-> 0, left |-> Len(pollResults),
                      \* what the pass is seen to do: DELETE statements run,
                      \* rows at its start, rows deleted, latest poll_time deleted
                      iters |-> 0, rows0 |-> Len(pollResults), deleted |-> 0,
                      maxGone |-> -1]
  /\ UNCHANGED << coreVars, clock, pollResults, fileSize, autoVacuum, concVars, lifeVars, obsVars >>

\* The DELETE of the oldest batch; no row affected ends the loop.
CleanupDelete ==
  /\ cleanup.pc = "delete"
  /\ LET gone == Oldest(pollResults, BatchLimit, {})
     IN /\ pollResults' = Remaining(pollResults, gone, 1)
        /\ fileSize' = SizeAfterDelete(fileSize, pollResults', autoVacuum)
        /\ cleanup' = [cleanup EXCEPT !.pc = IF gone = {} THEN "vacuum" ELSE "measure",
                                      !.batches = IF @ < 2 THEN @ + 1 ELSE @,
                                      !.left = Len(pollResults'),
                                      !.iters = @ + 1,
                                      !.deleted = @ + Cardinality(gone),
                                      !.maxGone = Max({@} \cup { pollResults[i].PollTime : i \in gone })]
  /\ UNCHANGED << coreVars, clock, autoVacuum, concVars, lifeVars, obsVars >>

\* The re-measure after a batch, and the loop condition.
CleanupMeasure ==
  /\ cleanup.pc = "measure"
  /\ cleanup' = [cleanup EXCEPT !.currentSize = fileSize,
                                !.pc = IF LoopGuard(fileSize, cleanup.maxSizeBytes)
                                       THEN "delete" ELSE "vacuum"]
  /\ UNCHANGED << coreVars, clock, pollResults, fileSize, autoVacuum, concVars, lifeVars, obsVars >>

\* VACUUM, then return nil.
CleanupVacuum ==
  /\ cleanup.pc = "vacuum"
  /\ fileSize' = UsedSize(pollResults)
  /\ cleanup' = [cleanup EXCEPT !.pc = "returned"]
  /\ UNCHANGED << coreVars, clock, pollResults, autoVacuum, concVars, lifeVars, obsVars >>

\* os.Stat, the DELETE or VACUUM fails: the pass returns the error.
CleanupFail ==
  /\ cleanup.pc \in {"idle", "delete", "measure", "vacuum"}
  /\ cleanup' = [cleanup EXCEPT
                   !.pc = "returned",
                   !.err = CASE cleanup.pc = "delete" -> "failed to cleanup old results"
                             [] cleanup.pc = "vacuum" -> "failed to vacuum database"
                             [] OTHER -> "failed to get database file info"]
  /\ UNCHANGED << coreVars, clock, pollResults, fileSize, autoVacuum, concVars, lifeVars, obsVars >>

\* The cleanup routine of run() waits for its next tick.
CleanupReturn ==
  /\ cleanup.pc = "returned"
  /\ cleanup' = NoCleanup
  /\ UNCHANGED << coreVars, clock, pollResults, fileSize, autoVacuum, concVars, lifeVars, obsVars >>

RetentionInit == InitState /\ autoVacuum \in BOOLEAN

RetentionNext ==
  \/ InsertPollResult
  \/ CleanupBegin
  \/ CleanupDelete
  \/ CleanupMeasure
  \/ CleanupVacuum
  \/ CleanupFail
  \/ CleanupReturn

RetentionSpec == RetentionInit /\ [][RetentionNext]_vars

\* The cleanup goroutine, once inside CleanupOldResults, keeps running.
RetentionLiveSpec ==
  RetentionSpec /\ WF_vars(CleanupDelete \/ CleanupMeasure \/ CleanupVacuum)

\* ----------------------------------------------------- the process's life

\* The registry after NodeService.Initialize, as run() makes it.
Initialized == LoadSeedNodes(dbNodes, dbNodes, Seeds, 1, clock, NoFaults)

\* The main goroutine's next step. In main(): run(ctx); <-sigChan; cancel();
\* the five seconds of grace; return. In run(): the set-up, which fails
\* (log.Fatalf) or starts the services and the cleanup routine; <-ctx.Done();
\* the three Stop calls; return.
Main ==
  /\ \/ life.pc \in {"start", "grace"}
     \/ life.pc = "serving" /\ life.ctxDone
     \/ life.pc = "await" /\ life.sigChan = 1
  /\ \E setUp \in BOOLEAN :
       /\ life' =
            CASE life.pc = "start" /\ ~setUp -> [life EXCEPT !.pc = "fatal"]
              [] life.pc = "start" /\ setUp ->
                   [life EXCEPT !.pc = "serving", !.web = "listening",
                                !.pollRunning = TRUE, !.poll = "select",
                                !.repRunning = TRUE, !.report = "select",
                                !.retention = "select"]
              [] life.pc = "serving" ->
                   [life EXCEPT !.pc = "await", !.web = "closed",
                                !.repRunning = FALSE, !.repStop = TRUE,
                                !.pollRunning = FALSE, !.pollStop = TRUE]
              [] life.pc = "await" ->
                   [life EXCEPT !.pc = "grace", !.sigChan = 0, !.ctxDone = TRUE]
              [] OTHER ->
                   [life EXCEPT !.pc = "exited", !.poll = "exited",
                                !.report = "exited", !.retention = "exited"]
       /\ IF life.pc = "start" /\ setUp
          THEN /\ knownNodes' = Initialized.kn
               /\ dbNodes' = Initialized.db
               /\ started' = TRUE
          ELSE UNCHANGED << knownNodes, dbNodes, started >>
  /\ UNCHANGED << clock, nodeIndex, firstPolls, pollResults, mtuTests, last, snap,
                  cycle, retVars, concVars, obsVars, svc >>

\* SIGINT or SIGTERM arrives: signal.Notify hands it to sigChan if there is
\* room (the channel holds one), and drops it otherwise.
Signal ==
  /\ life.pc \notin {"fatal", "exited"}
  /\ life' = [life EXCEPT !.sigChan = 1, !.signalled = TRUE]
  /\ UNCHANGED << coreVars, clock, pollResults, retVars, concVars, obsVars, svc >>

\* pollingLoop: the select, then pollNextNode on a tick. Of the tick only the
\* row it appends is kept here.
PollingLoop ==
  /\ life.poll \in {"select", "work"}
  /\ IF life.poll = "select"
     THEN /\ life' = [life EXCEPT !.poll = Select(life.ctxDone, life.pollStop)]
          /\ UNCHANGED << pollResults, fileSize, clock >>
     ELSE /\ life' = [life EXCEPT !.poll = "select"]
          /\ IF clock < MaxTime
             THEN \E success \in BOOLEAN :
                    /\ pollResults' = CreatePollResult(pollResults,
                          [NodeID |-> SeedID("fa", "i1"), PollTime |-> clock,
                           Success |-> success, ResponseMs |-> 0,
                           Error |-> IF success THEN "" ELSE "failed to make request",
                           PathMTU |-> 0], NoFault)
                    /\ fileSize' = SizeAfterInsert(fileSize, pollResults')
                    /\ clock' = clock + 1
             ELSE UNCHANGED << pollResults, fileSize, clock >>
  /\ UNCHANGED << coreVars, autoVacuum, cleanup, concVars, obsVars, svc >>

\* reportingLoop: the select, then SendReport on a tick (it reads the
\* registry and writes nothing).
ReportingLoop ==
  /\ life.report \in {"select", "work"}
  /\ life' = [life EXCEPT !.report = IF @ = "select"
                                      THEN Select(life.ctxDone, life.repStop)
                                      ELSE "select"]
  /\ UNCHANGED << coreVars, clock, pollResults, retVars, concVars, obsVars, svc >>

\* The cleanup routine of run(): the select, then CleanupOldResults on a
\* tick; the file here stays within MaxDatabaseSizeMB, so the pass returns
\* at its first measure.
CleanupLoop ==
  /\ life.retention \in {"select", "work"}
  /\ fileSize <= MaxDatabaseSizeMB * Mebibyte
  /\ life' = [life EXCEPT !.retention = IF @ = "select"
                                         THEN Select(life.ctxDone, FALSE)
                                         ELSE "select"]
  /\ UNCHANGED << coreVars, clock, pollResults, retVars, concVars, obsVars, svc >>

LifeNext == Main \/ Signal \/ PollingLoop \/ ReportingLoop \/ CleanupLoop

\* Every goroutine that can take a step takes one in the end; nothing says
\* that a signal ever arrives.
LifeSpec ==
  /\ Init /\ [][LifeNext]_vars
  /\ WF_vars(Main) /\ WF_vars(PollingLoop) /\ WF_vars(ReportingLoop)
  /\ WF_vars(CleanupLoop)

\* ------------------------------------- the protocol and the retention pass

\* The rows CleanupOldResults leaves: batches of the oldest go until the
\* measured size is within the budget or a DELETE takes no row.
RECURSIVE RowsLeft(_, _, _)
RowsLeft(rows, size, maxSizeBytes) ==
  LET gone == Oldest(rows, BatchLimit, {})
      left == Remaining(rows, gone, 1)
      currentSize == SizeAfterDelete(size, left, autoVacuum)
  IN IF gone # {} /\ LoopGuard(currentSize, maxSizeBytes)
     THEN RowsLeft(left, currentSize, maxSizeBytes)
     ELSE left

\* One whole CleanupOldResults pass between two handlers of the protocol.
RetentionPass ==
  /\ started
  /\ \E maxSizeMB \in 0..MaxBudgetMB :
       LET maxSizeBytes == maxSizeMB * 1024 * 1024
           currentSize == SizeAfterInsert(fileSize, pollResults)
       IN IF currentSize <= maxSizeBytes
          THEN /\ pollResults' = pollResults
               /\ fileSize' = currentSize
          ELSE /\ pollResults' = RowsLeft(pollResults, currentSize, maxSizeBytes)
               /\ fileSize' = UsedSize(pollResults')
  /\ last' = Idle("retention")
  /\ UNCHANGED << knownNodes, dbNodes, started, clock, nodeIndex, firstPolls, mtuTests,
                  snap, cycle, autoVacuum, cleanup, concVars, lifeVars, obsVars >>

ProtocolNext == Initialize \/ Restart \/ HandleReport \/ PollNextNode \/ RetentionPass

ProtocolSpec == Init /\ [][ProtocolNext]_vars

\* --------------------------------------------------- the /report endpoint

\* Request bodies: bytes that are no JSON value of the shape of a
\* NetworkSnapshot, or an object with node_id (absent: "") and nodes.
Bodies ==
  { [kind |-> "garbage", node_id |-> "", nodes |-> << >>] }
  \cup { [kind |-> "object", node_id |-> id, nodes |-> ns] :
           id \in NodeIds \cup {""}, ns \in TaskNodeLists }

\* (mutant) bytes that do not parse are taken for an empty snapshot
Decode_Lenient(body) ==
  [err |-> "", snapshot |-> [NodeID |-> body.node_id, Nodes |-> body.nodes]]

\* json.NewDecoder(r.Body).Decode(&snapshot)
Decode(body) ==
  IF body.kind = "object"
  THEN [err |-> "", snapshot |-> [NodeID |-> body.node_id, Nodes |-> body.nodes]]
  ELSE [err |-> "invalid character", snapshot |-> [NodeID |-> "", Nodes |-> << >>]]

\* (mutant) the status of the answer follows the upserts of the merge
ReportStatus_FromMerge(method, decoded, faults) ==
  IF method # "POST" THEN StatusMethodNotAllowed
  ELSE IF decoded.err # "" THEN StatusBadRequest
  ELSE IF \E i \in DOMAIN faults : faults[i] # NoFault THEN StatusBadRequest
  ELSE StatusOK

\* handleReport: the status of the answer.
ReportStatus(method, decoded, faults) ==
  IF method # "POST" THEN StatusMethodNotAllowed
  ELSE IF decoded.err # "" THEN StatusBadRequest
  ELSE StatusOK

\* WebServer.handleReport, for any method, any body, and a store that may
\* fail at any upsert of the merge. (The list of reports kept for the
\* dashboard is no part of the registry and is left out.)
ServeReport ==
  /\ started
  /\ clock < MaxTime
  /\ \E method \in {"POST", "GET"}, body \in Bodies, faults \in [1..(MaxNodes + 1) -> Faults] :
       LET decoded == Decode(body)
           status == ReportStatus(method, decoded, faults)
           nodeInfo == [ID |-> decoded.snapshot.NodeID, FQDN |-> "", IP |-> "",
                        Nodes |-> decoded.snapshot.Nodes]
           r == IF method = "POST" /\ decoded.err = ""
                THEN MergeNodeInfo(knownNodes, dbNodes, nodeInfo, "report", clock, faults)
                ELSE [kn |-> knownNodes, db |-> dbNodes, err |-> ""]
       IN /\ knownNodes' = r.kn
          /\ dbNodes' = r.db
          /\ snap' = [nodeInfo |-> nodeInfo, discoveredBy |-> "report"]
          /\ last' = [op |-> "serve", target |-> "", ok |-> r.err = "",
                      id |-> nodeInfo.ID, listed |-> ListedIds(nodeInfo.Nodes),
                      method |-> method, kind |-> body.kind, status |-> status,
                      faults |-> faults]
  /\ clock' = clock + 1
  /\ UNCHANGED << started, nodeIndex, firstPolls, pollResults, mtuTests, cycle >>
  /\ UNCHANGED << retVars, concVars, lifeVars, obsVars >>

WebNext == Initialize \/ ServeReport

WebSpec == Init /\ [][WebNext]_vars

\* ------------------------------------------- one service, started and stopped

\* PollingService.Start (ReportingService.Start is the same code): refused
\* while running, else running is set and a loop goroutine is started.
Start ==
  /\ ~svc.panicked
  /\ Len(svc.loops) < MaxLoops
  /\ svc' = IF svc.running
            THEN [svc EXCEPT !.err = "polling service is already running"]
            ELSE [svc EXCEPT !.running = TRUE, !.err = "",
                             !.loops = Append(@, NewLoop)]
  /\ UNCHANGED << coreVars, clock, pollResults, retVars, concVars, life, obsVars >>

\* PollingService.Stop: refused while not running, else running is cleared
\* and stopChan closed; closing a closed channel panics.
Stop ==
  /\ ~svc.panicked
  /\ svc' = IF ~svc.running
            THEN [svc EXCEPT !.err = "polling service is not running"]
            ELSE IF svc.stopChan = "closed"
                 THEN [svc EXCEPT !.running = FALSE, !.panicked = TRUE]
                 ELSE [svc EXCEPT !.running = FALSE, !.err = "", !.stopChan = "closed"]
  /\ UNCHANGED << coreVars, clock, pollResults, retVars, concVars, life, obsVars >>

\* The context handed to Start is cancelled.
Cancel ==
  /\ ~svc.panicked /\ ~svc.ctxDone
  /\ svc' = [svc EXCEPT !.ctxDone = TRUE]
  /\ UNCHANGED << coreVars, clock, pollResults, retVars, concVars, life, obsVars >>

\* The ticker of a live loop fires (its channel holds one tick).
TimerFires(i) ==
  /\ ~svc.panicked
  /\ svc.loops[i].pc # "exited" /\ ~svc.loops[i].tick
  /\ svc' = [svc EXCEPT !.loops[i].tick = TRUE]
  /\ UNCHANGED << coreVars, clock, pollResults, retVars, concVars, life, obsVars >>

\* pollingLoop at its select: one of the cases that can proceed is taken; a
\* tick enters pollNextNode, the other two return.
LoopSelect(i) ==
  /\ ~svc.panicked
  /\ svc.loops[i].pc = "select"
  /\ \E c \in Ready(svc, svc.loops[i]) :
       svc' = [svc EXCEPT !.loops[i] = IF c = "tick"
                                       THEN [pc |-> "polling", tick |-> FALSE]
                                       ELSE [pc |-> "exited", tick |-> FALSE]]
  /\ UNCHANGED << coreVars, clock, pollResults, retVars, concVars, life, obsVars >>

\* pollNextNode returns to the loop.
TickReturns(i) ==
  /\ ~svc.panicked
  /\ svc.loops[i].pc = "polling"
  /\ svc' = [svc EXCEPT !.loops[i].pc = "select"]
  /\ UNCHANGED << coreVars, clock, pollResults, retVars, concVars, life, obsVars >>

ServiceNext ==
  \/ Start \/ Stop \/ Cancel
  \/ \E i \in DOMAIN svc.loops : TimerFires(i)
  \/ \E i \in DOMAIN svc.loops : LoopSelect(i)
  \/ \E i \in DOMAIN svc.loops : TickReturns(i)

ServiceSpec == Init /\ [][ServiceNext]_vars

\* ------------------------------------------------------------------ claims

\* A handler has run in this step (stuttering steps leave the clock alone).
Ran(op) == clock' # clock /\ last'.op = op

\* C1: the first_seen an id got when it was created is never changed, in the
\* map or in the store, by any later upsert, merge, seed load or liveness
\* update; the map reloaded at a restart carries the stored value.
C1_FirstSeenImmutable ==
  [][ /\ \A id \in (DOMAIN dbNodes) \cap (DOMAIN dbNodes') :
           dbNodes'[id].FirstSeen = dbNodes[id].FirstSeen
      /\ \A id \in (DOMAIN knownNodes) \cap (DOMAIN knownNodes') :
           knownNodes'[id].FirstSeen = knownNodes[id].FirstSeen
      /\ \A id \in (DOMAIN dbNodes) \cap (DOMAIN knownNodes') :
           knownNodes'[id].FirstSeen = dbNodes[id].FirstSeen ]_vars

\* A node created earlier has since been upserted again, at a later time.
C1_Witness ==
  /\ last.op \in {"tick", "report"}
  /\ \E id \in DOMAIN knownNodes :
       /\ knownNodes[id].FirstSeen < knownNodes[id].LastSeen
       /\ knownNodes[id].LastSeen = clock - 1
       /\ id \in {last.id} \cup last.listed

\* C2: the own id is never an entry of the registry, map or store.
C2_SelfExcluded ==
  /\ MyNodeID \notin DOMAIN knownNodes
  /\ MyNodeID \notin DOMAIN dbNodes

\* A snapshot that names self as the reporting node and lists self was merged.
C2_Witness ==
  /\ last.op \in {"tick", "report"}
  /\ last.ok
  /\ last.id = MyNodeID
  /\ MyNodeID \in last.listed

\* The registry but for last_seen.
ModLastSeen(m) == [id \in DOMAIN m |-> [m[id] EXCEPT !.LastSeen = 0]]

\* C3: MergeNodeInfo applied a second time with the same snapshot and the
\* same sourceID, right after the first, leaves every node's id, fqdn, ip,
\* discovered_by, first_seen and is_active as the first application left them.
C3_MergeIdempotent ==
  [][ Ran("remerge") =>
        /\ ModLastSeen(knownNodes') = ModLastSeen(knownNodes)
        /\ ModLastSeen(dbNodes') = ModLastSeen(dbNodes) ]_vars

\* The same call was made twice in a row; the first application created a
\* node and changed a known one, the second moved their last_seen on.
C3_Witness ==
  /\ last.op = "remerge"
  /\ \E id \in DOMAIN knownNodes :
       knownNodes[id].FirstSeen = clock - 2 /\ knownNodes[id].LastSeen = clock - 1
  /\ \E id \in DOMAIN knownNodes :
       knownNodes[id].FirstSeen < clock - 2 /\ knownNodes[id].LastSeen = clock - 1

\* C4 (as claimed): while the active set stays the same, every N consecutive
\* ticks probe each of the N active peers once, and the order repeats.
C4_RoundRobin ==
  LET n == Cardinality(cycle.set)
      probed == cycle.probed
  IN /\ \A k \in 1..Len(probed) :
          k + n - 1 <= Len(probed) => { probed[j] : j \in k..(k + n - 1) } = cycle.set
     /\ \A k \in 1..Len(probed) :
          k + n <= Len(probed) => probed[k] = probed[k + n]

SeedIds == { SeedID(Seeds[i].FQDN, Seeds[i].IP) : i \in DOMAIN Seeds } \ {MyNodeID}

\* The process has shut down: the context is cancelled, the three loops have
\* returned and main has returned.
ShutDown ==
  /\ life.ctxDone
  /\ life.poll = "exited" /\ life.report = "exited" /\ life.retention = "exited"
  /\ life.pc = "exited"

\* C11 (as claimed): once a shutdown signal has been received, the context is
\* cancelled in the end, the polling, reporting and cleanup loops exit and
\* main returns (unless run() had failed and ended the process before).
C11_ShutdownCompletes == life.signalled ~> (ShutDown \/ life.pc = "fatal")

\* C12 (as claimed): whatever the interleaving of merges (of poll responses
\* and of /report bodies), upserts and liveness updates, no step lowers the
\* last_seen of a node, in the cache or in its stored row.
C12_LastSeenMonotone ==
  [][/\ \A id \in DOMAIN knownNodes \cap DOMAIN knownNodes' :
          knownNodes'[id].LastSeen >= knownNodes[id].LastSeen
     /\ \A id \in DOMAIN dbNodes \cap DOMAIN dbNodes' :
          dbNodes'[id].LastSeen >= dbNodes[id].LastSeen]_vars

\* The ids a MergeNodeInfo call mentions: the reporting node and the listed ones.
Mentions(s) == ({s.nodeInfo.ID} \cup ListedIds(s.nodeInfo.Nodes)) \ {MyNodeID}

\* The locators a MergeNodeInfo call carries for id.
Carried(s, id) ==
  { [FQDN |-> s.nodeInfo.FQDN, IP |-> s.nodeInfo.IP] : x \in {s.nodeInfo.ID} \cap {id} }
  \cup { [FQDN |-> s.nodeInfo.Nodes[i].FQDN, IP |-> s.nodeInfo.Nodes[i].IP] :
           i \in { j \in DOMAIN s.nodeInfo.Nodes : s.nodeInfo.Nodes[j].ID = id } }

\* C13 (as claimed): two snapshots applied to the same registry in either
\* order leave the same ids and, for every id, the same fqdn, ip,
\* discovered_by and is_active.
C13_OrderIndependent ==
  orders # NoOrders =>
    /\ DOMAIN orders.fwd = DOMAIN orders.bwd
    /\ \A id \in DOMAIN orders.fwd :
         /\ orders.fwd[id].FQDN = orders.bwd[id].FQDN
         /\ orders.fwd[id].IP = orders.bwd[id].IP
         /\ orders.fwd[id].DiscoveredBy = orders.bwd[id].DiscoveredBy
         /\ orders.fwd[id].IsActive = orders.bwd[id].IsActive

\* C13 (amended): either order leaves the same ids and the same is_active;
\* fqdn and ip of a node are the same when the two snapshots carry no two
\* different locators for it, discovered_by when at most one of the two
\* snapshots mentions the node.
C13_OrderIndependentWhereAgreed ==
  orders # NoOrders =>
    /\ DOMAIN orders.fwd = DOMAIN orders.bwd
    /\ \A id \in DOMAIN orders.fwd :
         /\ orders.fwd[id].IsActive = orders.bwd[id].IsActive
         /\ Cardinality(Carried(orders.first, id) \cup Carried(orders.second, id)) <= 1
              => /\ orders.fwd[id].FQDN = orders.bwd[id].FQDN
                 /\ orders.fwd[id].IP = orders.bwd[id].IP
         /\ id \notin Mentions(orders.first) \cap Mentions(orders.second)
              => orders.fwd[id].DiscoveredBy = orders.bwd[id].DiscoveredBy

\* Two snapshots that both list one unknown node with the same locators and
\* one known, inactive node have been applied.
C13_Witness ==
  /\ orders # NoOrders
  /\ orders.first # orders.second
  /\ \E id \in Mentions(orders.first) \cap Mentions(orders.second) :
       /\ id \in DOMAIN orders.fwd
       /\ Cardinality(Carried(orders.first, id) \cup Carried(orders.second, id)) = 1
  /\ \E id \in DOMAIN orders.fwd : ~orders.fwd[id].IsActive

\* C14 (as claimed): a merge (of a /report body, or of the response a tick
\* got) leaves the discovered_by of every id the registry held before as it
\* was, the reporting node's too.
C14_DiscoveredByKept ==
  [][ (Ran("report") \/ Ran("tick")) =>
        /\ \A id \in DOMAIN knownNodes \cap DOMAIN knownNodes' :
             knownNodes'[id].DiscoveredBy = knownNodes[id].DiscoveredBy
        /\ \A id \in DOMAIN dbNodes \cap DOMAIN dbNodes' :
             dbNodes'[id].DiscoveredBy = dbNodes[id].DiscoveredBy ]_vars

\* C15 (as claimed): an upsert whose write-through fails (at GetNode, at
\* CreateNode or at UpdateNode) returns an error, and the map holds the record
\* that was passed all the same (with the first_seen of the row, if there is one).
C15_CacheUpdatedOnFailure ==
  [][ (Ran("upsert") /\ ~last'.ok) =>
        /\ last'.target \in DOMAIN knownNodes'
        /\ LET node == ret'.nodes[1]
               got == knownNodes'[last'.target]
           IN /\ got.FQDN = node.FQDN /\ got.IP = node.IP
              /\ got.DiscoveredBy = node.DiscoveredBy
              /\ got.LastSeen = node.LastSeen /\ got.IsActive = node.IsActive ]_vars

\* An UpdateNodeStatus call has returned.
StatusReturned == last'.op = "status" /\ <<knownNodes, dbNodes, last>>' # <<knownNodes, dbNodes, last>>

\* C16 (as claimed): UpdateNodeStatus for a known id leaves is_active as
\* given and last_seen at the time of the call, in the map and in the row.
C16_StatusTouchesLastSeen ==
  [][ (StatusReturned /\ last'.target \in DOMAIN knownNodes) =>
        LET id == last'.target
        IN /\ last'.ok
           /\ knownNodes'[id].IsActive = last'.isActive
           /\ dbNodes'[id].IsActive = last'.isActive
           /\ knownNodes'[id].LastSeen = clock
           /\ dbNodes'[id].LastSeen = clock ]_vars

\* C17: UpdateNodeStatus for an id the map does not hold returns an error
\* and leaves the map and the store as they were.
C17_StatusUnknownId ==
  [][ (StatusReturned /\ last'.target \notin DOMAIN knownNodes) =>
        /\ ~last'.ok
        /\ knownNodes' = knownNodes
        /\ dbNodes' = dbNodes ]_vars

\* UpdateNodeStatus was called for n1, which the map (two seeds) and the
\* store do not hold, and returned its error.
C17_Witness ==
  /\ last.op = "status" /\ ~last.ok
  /\ last.target = "n1"
  /\ "n1" \notin DOMAIN knownNodes /\ "n1" \notin DOMAIN dbNodes
  /\ Cardinality(DOMAIN knownNodes) = 2

\* C18 (as claimed): the list GetKnownNodes or GetActiveNodes returns is in
\* ascending order of first_seen; the same call made again on the same
\* registry returns the same list; GetActiveNodes returns the active nodes,
\* all of them and no other.
C18_ListsOrdered ==
  [][ (ret' # ret /\ ret'.op \in {"all", "active"}) =>
        /\ \A i, j \in DOMAIN ret'.nodes :
             i < j => ret'.nodes[i].FirstSeen <= ret'.nodes[j].FirstSeen
        /\ ret.op = ret'.op => ret'.nodes = ret.nodes
        /\ ret'.op = "active" =>
             /\ Range(ret'.nodes) = { knownNodes[id] : id \in ActiveIds(knownNodes) }
             /\ Len(ret'.nodes) = Cardinality(ActiveIds(knownNodes)) ]_vars

\* C19: what GetKnownNodes, GetActiveNodes and GetNodeByID return are copies:
\* an assignment the caller makes to a record it got leaves the map as it
\* was, and a later write to the registry (a liveness update, a merge)
\* leaves the records the caller holds as they were.
C19_ReturnsCopies ==
  [][ /\ (ret'.op = "written" /\ ret.op # "written") => knownNodes' = knownNodes
      /\ ret' = ret => Seen' = Seen ]_vars

\* A caller holds a record it got and then wrote to (fqdn, is_active
\* negated); since the read, a liveness update has given the map's record the
\* is_active the caller's record now has; the fqdn in the map is not the caller's.
C19_Witness ==
  /\ ret.op = "written"
  /\ last.op = "status" /\ last.ok
  /\ \E i \in DOMAIN ret.nodes :
       /\ ret.nodes[i].ID = last.target
       /\ ret.nodes[i].FQDN = "mine"
       /\ knownNodes[last.target].FQDN # "mine"
       /\ knownNodes[last.target].IsActive = ret.nodes[i].IsActive

\* The ids whose upsert the store let through in the last merge: the
\* reporting node's, the listed ones', the own id apart.
Upserted ==
  LET info == snap'.nodeInfo
  IN ({ info.ID : x \in { f \in {last'.faults[1]} : f = NoFault } }
      \cup { info.Nodes[i].ID :
               i \in { j \in DOMAIN info.Nodes : last'.faults[j + 1] = NoFault } })
     \ {MyNodeID}

\* C20: a merge in which the upsert of one node fails goes on: every node
\* whose own upsert the store lets through is in the map and in the store
\* after it, seen at the time of the merge, and MergeNodeInfo returns nil.
C20_MergeSurvivesUpsertFailure ==
  [][ Ran("merge") =>
        /\ last'.ok
        /\ \A id \in Upserted :
             /\ id \in DOMAIN knownNodes' /\ knownNodes'[id].LastSeen = clock
             /\ id \in DOMAIN dbNodes' /\ dbNodes'[id].LastSeen = clock ]_vars

\* The last merge listed two nodes; the upsert of the first failed, the
\* second, unknown before, was created by it.
C20_Witness ==
  /\ last.op = "merge" /\ last.ok
  /\ Len(snap.nodeInfo.Nodes) = 2
  /\ last.faults[2] # NoFault /\ last.faults[3] = NoFault
  /\ LET a == snap.nodeInfo.Nodes[1].ID
         b == snap.nodeInfo.Nodes[2].ID
     IN /\ a \notin {b, MyNodeID}
        /\ b \in DOMAIN knownNodes /\ b \in DOMAIN dbNodes
        /\ knownNodes[b].FirstSeen = clock - 1

\* The loops of the service that are inside pollNextNode.
InFlight == { i \in DOMAIN svc.loops : svc.loops[i].pc = "polling" }

\* C21 (as claimed): whatever Start and Stop calls are made and whenever the
\* tickers fire, at most one pollNextNode of the service is in flight.
C21_TicksNeverOverlap == Cardinality(InFlight) <= 1

\* C22: a POST /report whose body decodes is merged with sourceID "report"
\* (a reporting node new to the registry is credited to "report") and is
\* answered 200, whatever upserts of the merge the store refused.
C22_ReportAlwaysAcknowledged ==
  [][ (Ran("serve") /\ last'.method = "POST" /\ last'.kind = "object") =>
        /\ last'.status = StatusOK
        /\ LET r == MergeNodeInfo(knownNodes, dbNodes, snap'.nodeInfo, "report", clock,
                                  last'.faults)
           IN knownNodes' = r.kn /\ dbNodes' = r.db
        /\ (last'.id \notin DOMAIN dbNodes \cup {MyNodeID} /\ last'.faults[1] = NoFault)
             => knownNodes'[last'.id].DiscoveredBy = "report" ]_vars

\* A POST /report was answered 200 although every upsert of its merge (the
\* reporting node's, the listed node's) was refused by the store.
C22_Witness ==
  /\ last.op = "serve" /\ last.method = "POST" /\ last.kind = "object"
  /\ last.status = StatusOK
  /\ last.id \notin {MyNodeID, ""}
  /\ Len(snap.nodeInfo.Nodes) = 1 /\ snap.nodeInfo.Nodes[1].ID # MyNodeID
  /\ \A i \in DOMAIN last.faults : last.faults[i] # NoFault

C24_NodesNeverDeleted ==
  [][ /\ DOMAIN dbNodes \subseteq DOMAIN dbNodes'
      /\ started' => (DOMAIN knownNodes \subseteq DOMAIN knownNodes')
      /\ (~started /\ started') => (DOMAIN dbNodes \subseteq DOMAIN knownNodes') ]_vars

\* The registry has gained a node beside the seeds; a retention pass has
\* just emptied the poll history; a seed is inactive.
C24_Witness ==
  /\ last.op = "retention"
  /\ pollResults = << >> /\ fileSize = EmptyFileSize
  /\ "n1" \in DOMAIN knownNodes /\ "n1" \in DOMAIN dbNodes
  /\ \E id \in SeedIds : id \in DOMAIN knownNodes /\ ~knownNodes[id].IsActive

\* C25 (as claimed): a merge whose reporting node the registry already
\* holds (and whose list does not name that node) leaves the fqdn, ip and
\* discovered_by of that node as they were, in the map and in the store.
C25_KnownReporterKept ==
  [][ ((Ran("report") \/ (Ran("tick") /\ last'.ok))
        /\ last'.id \in DOMAIN knownNodes /\ last'.id \notin last'.listed) =>
        LET id == last'.id
            Same(a, b) == /\ a.FQDN = b.FQDN /\ a.IP = b.IP
                          /\ a.DiscoveredBy = b.DiscoveredBy
        IN /\ Same(knownNodes'[id], knownNodes[id])
           /\ Same(dbNodes'[id], dbNodes[id]) ]_vars

\* C26 (as claimed): a merge that lists a node the registry already holds,
\* other than self, leaves that node with the listed fqdn and ip and with
\* last_seen at the time of the merge, and with the discovered_by, first_seen
\* and is_active it had.
C26_ListedKnownRefreshed ==
  [][ (clock' # clock /\ snap' # NoSnap) =>
        \A i \in DOMAIN snap'.nodeInfo.Nodes :
          LET n == snap'.nodeInfo.Nodes[i]
          IN (n.ID # MyNodeID /\ n.ID \in DOMAIN knownNodes) =>
               /\ knownNodes'[n.ID].FQDN = n.FQDN
               /\ knownNodes'[n.ID].IP = n.IP
               /\ knownNodes'[n.ID].LastSeen = clock
               /\ knownNodes'[n.ID].DiscoveredBy = knownNodes[n.ID].DiscoveredBy
               /\ knownNodes'[n.ID].FirstSeen = knownNodes[n.ID].FirstSeen
               /\ knownNodes'[n.ID].IsActive = knownNodes[n.ID].IsActive ]_vars

\* The active peers other than self, as a tick finds them.
ActivePeers == ActiveIds(knownNodes) \ {MyNodeID}

\* A step of pollNextNode.
Ticked == clock' # clock /\ last'.op \in {"tick", "idle", "panic"}

\* C27: a tick that finds no active peer other than self probes nothing,
\* appends no poll result, changes no node, and leaves the cursor and the
\* first-poll marks as they were.
C27_IdleTickChangesNothing ==
  [][ (Ticked /\ ActivePeers = {}) =>
        /\ last'.op = "idle" /\ last'.target = ""
        /\ UNCHANGED << knownNodes, dbNodes, pollResults, nodeIndex, firstPolls,
                        mtuTests >> ]_vars

\* A tick has run over a registry whose peers are all inactive.
C27_Witness ==
  /\ last.op = "idle"
  /\ DOMAIN knownNodes # {}
  /\ ActivePeers = {}

\* C28: the index a tick uses to select its target is at least 0 and less
\* than the length of the filtered active list of that tick.
C28_CursorInBounds ==
  [][ (Ticked /\ ActivePeers # {}) =>
        /\ last'.op = "tick"
        /\ nodeIndex' - 1 \in 0..(Cardinality(ActivePeers) - 1)
        /\ last'.target \in ActivePeers ]_vars

\* A tick has run with the cursor past the end of a list that had shrunk,
\* and has taken entry 0.
C28_Witness ==
  /\ last.op = "tick"
  /\ Len(pollResults) = 2
  /\ nodeIndex = 1

\* C29: a tick whose probe of its target failed adds no node and changes no
\* node but the target; all it changes in the registry, map and store, is
\* the target's is_active, which is false afterwards.
C29_FailedProbeNoMerge ==
  [][ (Ran("tick") /\ ~last'.ok) =>
        LET T == last'.target
        IN /\ T \in DOMAIN knownNodes
           /\ knownNodes' = [knownNodes EXCEPT ![T].IsActive = FALSE]
           /\ dbNodes' = [dbNodes EXCEPT ![T].IsActive = FALSE] ]_vars

\* A tick's probe failed while another peer of the registry was active.
C29_Witness ==
  /\ last.op = "tick"
  /\ ~last.ok
  /\ ~knownNodes[last.target].IsActive
  /\ \E id \in DOMAIN knownNodes : id # last.target /\ knownNodes[id].IsActive

\* C30: a tick that selects a target hands one poll result for that target
\* to the store, carrying the probe's success; when the store takes it,
\* poll_results grows by that one row, and when the store refuses it the tick
\* goes on all the same: the target's is_active becomes the probe's success
\* and the tick returns nil.
C30_OneOutcomePerTick ==
  [][ Ran("tick") =>
        LET T == last'.target
        IN /\ last'.err = ""
           /\ knownNodes'[T].IsActive = last'.ok
           /\ dbNodes'[T].IsActive = last'.ok
           /\ IF last'.rowFault = NoFault
              THEN /\ Len(pollResults') = Len(pollResults) + 1
                   /\ SubSeq(pollResults', 1, Len(pollResults)) = pollResults
                   /\ pollResults'[Len(pollResults')].NodeID = T
                   /\ pollResults'[Len(pollResults')].Success = last'.ok
              ELSE pollResults' = pollResults ]_vars

\* The store refused the row of a tick whose probe failed, the target is
\* inactive, and the tick after it has run and stored its row.
C30_Witness ==
  /\ last.op = "tick"
  /\ last.before = "tick"
  /\ last.rowFault = NoFault
  /\ Len(pollResults) = 1
  /\ \E id \in DOMAIN knownNodes : ~knownNodes[id].IsActive

\* C31: a retention pass that measures a size within the budget returns at
\* once: it deletes no row of poll_results, whatever its poll_time, and runs
\* no VACUUM (the file keeps its size); nothing is deleted either before the
\* routine takes up its next pass.
C31_SizeTriggeredOnly ==
  [][ /\ (cleanup.pc = "idle" /\ cleanup'.pc # "idle" /\ cleanup'.err = ""
            /\ fileSize <= cleanup'.maxSizeBytes) =>
           /\ cleanup'.pc = "returned"
           /\ cleanup'.batches = 0
           /\ pollResults' = pollResults
           /\ fileSize' = fileSize
      /\ cleanup.pc = "returned" =>
           /\ cleanup'.pc \in {"returned", "idle"}
           /\ Len(pollResults') >= Len(pollResults)
           /\ fileSize' >= fileSize ]_vars

\* A pass has returned from a file within a budget above zero, leaving a
\* row of an earlier time where it was.
C31_Witness ==
  /\ cleanup.pc = "returned"
  /\ cleanup.err = ""
  /\ cleanup.batches = 0
  /\ cleanup.maxSizeBytes > 0
  /\ fileSize <= cleanup.maxSizeBytes
  /\ pollResults # << >>
  /\ pollResults[1].PollTime < clock

Ceil(a, b) == (a + b - 1) \div b

\* Rows inserted into poll_results since the running pass began.
InsertedDuringPass == cleanup.deleted + Len(pollResults) - cleanup.rows0

\* What C32 says of one DELETE, of the end of the loop and of the rows left:
\* a DELETE takes at most BatchLimit rows; the loop ends after a DELETE that
\* took no row and after a measure within the budget, and goes on otherwise;
\* no row of poll_results is older than a row the pass has deleted; a pass
\* under way returns.
C32_BatchesOldestFirst ==
  /\ [][ /\ cleanup.pc = "delete" =>
              cleanup'.deleted - cleanup.deleted \in 0..BatchLimit
         /\ (cleanup.pc = "delete" /\ cleanup'.pc \notin {"delete", "returned"}) =>
              (cleanup'.pc = "vacuum") = (cleanup'.deleted = cleanup.deleted)
         /\ (cleanup.pc = "measure" /\ cleanup'.pc \notin {"measure", "returned"}) =>
              (cleanup'.pc = "vacuum") = (fileSize <= cleanup.maxSizeBytes) ]_vars
  /\ [](cleanup.pc # "idle" =>
          \A i \in DOMAIN pollResults : pollResults[i].PollTime >= cleanup.maxGone)
  /\ (cleanup.pc \in {"delete", "measure", "vacuum"}) ~> (cleanup.pc = "returned")

\* C32 (as claimed): a retention pass returns; each DELETE takes at most
\* BatchLimit of the oldest rows; the loop stops at a size within the budget
\* or a DELETE that took no row; it runs at most ceil(rows/BatchLimit)+1
\* DELETEs, rows counted when the pass begins; no surviving row is older than
\* a deleted one.
C32_PassBounded ==
  /\ C32_BatchesOldestFirst
  /\ [](cleanup.iters <= Ceil(cleanup.rows0, BatchLimit) + 1)

\* C32 (amended): the same, the bound on the DELETEs being claimed of a pass
\* during which no row is inserted into poll_results.
C32_PassBoundedWithoutInserts ==
  /\ C32_BatchesOldestFirst
  /\ [](InsertedDuringPass = 0 =>
          cleanup.iters <= Ceil(cleanup.rows0, BatchLimit) + 1)

\* A pass over more rows than one batch has run ceil(rows/BatchLimit)+1
\* DELETEs, emptied the table and returned, no row having come in meanwhile.
C32_Witness ==
  /\ cleanup.pc = "returned"
  /\ cleanup.err = ""
  /\ cleanup.rows0 > BatchLimit
  /\ InsertedDuringPass = 0
  /\ cleanup.iters = Ceil(cleanup.rows0, BatchLimit) + 1
  /\ cleanup.maxGone >= 0

\* C33 (as claimed): the row of a first poll carries path_mtu 0 or a size
\* that the path to the target let through; over a path that lets no size
\* through it carries 0.
C33_PathMTUUnsetOnFailure ==
  [][ (Ran("tick") /\ FirstPoll(firstPolls, last'.target)) =>
        LET row == pollResults'[Len(pollResults')]
        IN /\ row.NodeID = last'.target
           /\ row.PathMTU = 0 \/ TestMTUSize(last'.cap, row.PathMTU)
           /\ (\A mtu \in 1..1500 : ~TestMTUSize(last'.cap, mtu)) => row.PathMTU = 0 ]_vars

\* The loop goroutines of the service that have not returned.
LiveLoops == { i \in DOMAIN svc.loops : svc.loops[i].pc # "exited" }

\* C34 (as claimed): whatever Start and Stop calls are made, Stop never
\* closes stopChan a second time (the process does not panic in Stop), and
\* the loop of a service started again after a Stop has nothing to stop it:
\* while the service runs and its context is live, stopChan is open.
C34_StopChanClosedOnce ==
  /\ ~svc.panicked
  /\ (svc.running /\ ~svc.ctxDone) => svc.stopChan = "open"

\* C35 (as claimed): while running is true a loop goroutine is live, and
\* while running is false no loop takes a tick into pollNextNode.
C35_RunningIffLoopLive ==
  /\ [](svc.running => LiveLoops # {})
  /\ [][ ~svc.running =>
           \A i \in DOMAIN svc.loops :
             ~(svc.loops[i].pc = "select" /\ svc'.loops[i].pc = "polling") ]_vars

\* C36: the target of a tick is a node that the registry, as the tick found
\* it, holds as active and that is not self; and a node the registry holds
\* as inactive becomes active only in a step that merges a snapshot whose
\* reporting node it is.
C36_TargetActiveNotSelf ==
  [][ /\ Ran("tick") =>
           /\ last'.target # MyNodeID
           /\ last'.target \in DOMAIN knownNodes
           /\ knownNodes[last'.target].IsActive
      /\ \A id \in DOMAIN knownNodes \cap DOMAIN knownNodes' :
           (~knownNodes[id].IsActive /\ knownNodes'[id].IsActive) =>
             /\ Ran("report") \/ (Ran("tick") /\ last'.ok)
             /\ last'.id = id ]_vars

\* A node that a failed probe had left inactive is active again after a
\* /report that names it as the reporting node.
C36_Witness ==
  /\ last.op = "report"
  /\ last.id \in DOMAIN knownNodes
  /\ knownNodes[last.id].IsActive
  /\ \E i \in DOMAIN pollResults :
       pollResults[i].NodeID = last.id /\ ~pollResults[i].Success

C38_CacheAgreesWithStore == started => knownNodes = dbNodes

\* C39: when Initialize loads the seed list over a registry that already
\* holds a seed's id (its row was read from the store just before), that
\* entry is in the map exactly as the store had it, inactive or not, and its
\* row is as it was.
C39_KnownSeedUntouched ==
  [][ (~started /\ started') =>
        \A id \in SeedIds \cap DOMAIN dbNodes :
          /\ knownNodes'[id] = dbNodes[id]
          /\ dbNodes'[id] = dbNodes[id] ]_vars

\* Initialize has run over a store that held a seed as inactive, and the
\* seed is still inactive and as old as it was.
C39_Witness ==
  /\ started
  /\ last.op = "init"
  /\ \E id \in SeedIds \cap DOMAIN knownNodes :
       /\ ~knownNodes[id].IsActive
       /\ knownNodes[id].LastSeen < clock - 1
       /\ knownNodes[id] = dbNodes[id]

\* C5: TestPathMTU is called at most once for a peer id in the lifetime of a
\* PollingService, however many PollNode calls target the id, together or
\* one after the other.
C5_PathMTUOnce == \A id \in NodeIds : mtuTests[id] <= 1

\* Two PollNode calls for one id are in flight, both past the marker; the one
\* that found it unset has made its TestPathMTU call.
C5_Witness ==
  \E a \in Tasks, b \in Tasks :
    /\ a # b
    /\ task[a].op = "poll" /\ task[b].op = "poll"
    /\ task[a].id = task[b].id
    /\ task[a].pc \notin {"idle", "mtu"} /\ task[b].pc \notin {"idle", "mtu"}
    /\ task[a].first /\ ~task[b].first
    /\ mtuTests[task[a].id] = 1

\* Task t is writing to the record knownNodes[id] points to.
Writes(t, id) ==
  \/ task[t].pc = "statusLocked" /\ task[t].id = id /\ id \in DOMAIN knownNodes
  \/ task[t].pc \in {"write", "upsertLocked"} /\ task[t].live /\ task[t].ptr.ID = id

\* Task t is reading the record knownNodes[id] points to.
Reads(t, id) ==
  /\ task[t].pc = "reading"
  /\ task[t].id \in {"", id}
  /\ id \in DOMAIN knownNodes

\* C10 (as claimed): while a task is writing to a cached record, no other
\* task is reading or writing that record.
C10_WritesExclusive ==
  \A t \in Tasks, id \in NodeIds :
    Writes(t, id) => \A u \in Tasks \ {t} : ~Writes(u, id) /\ ~Reads(u, id)

\* A retention pass returns nil in this step.
ReturnsNil == cleanup.pc # "returned" /\ cleanup'.pc = "returned" /\ cleanup'.err = ""

\* C6 (as claimed): when a retention pass returns nil, the size it measured
\* last is within the budget or poll_results holds no row.
C6_WithinBudgetOrEmpty ==
  [][ ReturnsNil =>
        \/ cleanup'.currentSize <= cleanup'.maxSizeBytes
        \/ pollResults' = << >> ]_vars

\* C6 (amended): when a retention pass returns nil, the size it measured last
\* is within the budget or its last DELETE left poll_results without a row.
C6_WithinBudgetOrExhausted ==
  [][ ReturnsNil =>
        \/ cleanup'.currentSize <= cleanup'.maxSizeBytes
        \/ cleanup'.left = 0 ]_vars

\* A pass over a file beyond the budget has deleted two batches and returned nil.
C6_Witness ==
  /\ cleanup.pc = "returned"
  /\ cleanup.err = ""
  /\ cleanup.batches >= 2
  /\ cleanup.maxSizeBytes > 0

\* C7: Initialize leaves one entry per seed other than self, under the id
\* "seed-<fqdn>-<ip>"; an entry it creates says discovered_by = "seed"; it adds
\* nothing else; with every seed already stored (a restart) it changes
\* nothing, and loading the list once more in the same process changes nothing.
C7_SeedLoad ==
  [][ (~started /\ started') =>
        /\ \A i \in DOMAIN Seeds :
             LET id == SeedID(Seeds[i].FQDN, Seeds[i].IP)
             IN id # MyNodeID =>
                  /\ id \in DOMAIN knownNodes'
                  /\ id \notin DOMAIN dbNodes =>
                       knownNodes'[id] =
                         [ID |-> id, FQDN |-> Seeds[i].FQDN, IP |-> Seeds[i].IP,
                          DiscoveredBy |-> "seed", FirstSeen |-> clock,
                          LastSeen |-> clock, IsActive |-> TRUE]
        /\ "seed-fa-i1" \in DOMAIN knownNodes'
        /\ DOMAIN knownNodes' = (DOMAIN dbNodes) \cup SeedIds
        /\ dbNodes' = knownNodes'
        /\ SeedIds \subseteq DOMAIN dbNodes => dbNodes' = dbNodes
        /\ LoadSeedNodes(knownNodes', dbNodes', Seeds, 1, clock', NoFaults)
             = [kn |-> knownNodes', db |-> dbNodes'] ]_vars

\* The seeds were loaded a second time, after a restart, and a seed entry of
\* the store no longer looks like a fresh one.
C7_Witness ==
  /\ last.op = "init"
  /\ clock >= 2
  /\ \E id \in SeedIds : ~knownNodes[id].IsActive

\* Ids a probe response lists that the registry did not hold before the tick.
NewlyListed == last'.listed \ ((DOMAIN knownNodes) \cup {MyNodeID})

C9_ProbeFailure ==
  [][ (Ran("tick") /\ ~last'.ok) =>
        /\ last'.target \in DOMAIN knownNodes'
        /\ ~knownNodes'[last'.target].IsActive
        /\ ~dbNodes'[last'.target].IsActive
        /\ Len(pollResults') = Len(pollResults) + 1
        /\ SubSeq(pollResults', 1, Len(pollResults)) = pollResults
        /\ pollResults'[Len(pollResults')].NodeID = last'.target
        /\ ~pollResults'[Len(pollResults')].Success
        /\ pollResults'[Len(pollResults')].Error # "" ]_vars

\* A tick's probe failed.
C9_Witness ==
  /\ last.op = "tick"
  /\ ~last.ok
  /\ pollResults # << >>

====
